---- MODULE Spec2Model ----
(***************************************************************************)
(* Presence Simulator (VacationModeApp): tracking, per-key history store,  *)
(* schedule engine with one timer per tracking key, initial state sync.    *)
(* Model of src/app.js (the class that starts at line 1275) and of the     *)
(* command endpoints of src/api.js (lines 1-651).                          *)
(***************************************************************************)
EXTENDS Integers, Sequences, FiniteSets, TLC

VARIABLES
  clock,               \* Date.now(): ms since a Sunday 00:00:00.000 local time
  vacationModeActive,  \* this.vacationModeActive
  testMode,            \* this.testMode
  trackedDevices,      \* this.trackedDevices: key -> [mode, lastValue]
  deviceHistory,       \* this.deviceHistory: key -> array of events
  scheduledTimeouts,   \* this.scheduledTimeouts: key -> timer handle
  timers,              \* homey.setTimeout timers armed, not fired, not cleared
  handlers,            \* fired timer callbacks suspended inside executeAction
  passes,              \* enableVacationMode / restart callbacks suspended on I/O
  settings,            \* homey.settings (persistent store)
  liveValue,           \* the devices' capability values
  valueLog,            \* every value each capability ever had, with its time
  lastOp,              \* the operation that produced the current state
  budget,              \* commands and faults the environment may still issue
  requests,            \* trackDevice calls of api.js suspended on device I/O
  sweep,               \* the daily cleanup callback, between two keys
  starts,              \* startTrackingDevice calls suspended on device I/O
  subscriptions,       \* listeners registered and poll intervals running
  calcResult,          \* SpecCalc: what calculateNextEvent returned
  fires                \* the timer callbacks that ran (key, value, time),
                       \* logged where the specification reads them

vars == <<clock, vacationModeActive, testMode, trackedDevices, deviceHistory,
          scheduledTimeouts, timers, handlers, passes, settings, liveValue,
          valueLog, lastOp, budget, requests, sweep, starts, subscriptions,
          calcResult, fires>>

-----------------------------------------------------------------------------
(* Tracking keys "<deviceId>:<capability>" and their storage keys.          *)

K1 == "d1:onoff"
K2 == "d2:onoff"
Keys == {K1, K2}

\* the key of a group device whose members are the devices d1 and d2
KG == "g1:onoff"
AllKeys == Keys \cup {KG}

\* a tracking key as text: its colons, and the runs of characters between them
Characters(trackingKey) ==
  CASE trackingKey = K1 -> <<"d1", ":", "onoff">>
    [] trackingKey = K2 -> <<"d2", ":", "onoff">>
    [] trackingKey = KG -> <<"g1", ":", "onoff">>

\* parseTrackingKey: the index of the first ':', 0 when there is none
colonIndex(chars) ==
  IF \E i \in 1..Len(chars) : chars[i] = ":"
    THEN CHOOSE i \in 1..Len(chars) :
           chars[i] = ":" /\ \A j \in 1..(i - 1) : chars[j] # ":"
    ELSE 0

\* parseTrackingKey, api.js lines 68-78
parseTrackingKey(trackingKey) ==
  LET chars == Characters(trackingKey)
  IN IF colonIndex(chars) = 0
       THEN [deviceId |-> chars, capability |-> <<"onoff">>]
       ELSE [deviceId   |-> SubSeq(chars, 1, colonIndex(chars) - 1),
             capability |-> SubSeq(chars, colonIndex(chars) + 1, Len(chars))]

\* device.settings.deviceIds of the devices that have them
deviceIds == [id \in {<<"g1">>} |-> {<<"d1">>, <<"d2">>}]

\* isDeviceGroup, api.js lines 8-24: the device has a deviceIds array
isDeviceGroup(deviceId) == deviceId \in DOMAIN deviceIds

\* a variant of StorageKey that keeps the capability alone
StorageKeyOfCapability(trackingKey) ==
  LET chars == Characters(trackingKey)
  IN SubSeq(chars, colonIndex(chars) + 1, Len(chars))

\* trackingKey.replace(/:/g, '_')
StorageKey(trackingKey) ==
  LET chars == Characters(trackingKey)
  IN [i \in 1..Len(chars) |-> IF chars[i] = ":" THEN "_" ELSE chars[i]]

EmptyMap == [k \in {} |-> 0]

MapSet(map, k, v) == [x \in (DOMAIN map) \cup {k} |-> IF x = k THEN v ELSE map[x]]
MapDelete(map, k) == [x \in (DOMAIN map) \ {k} |-> map[x]]

-----------------------------------------------------------------------------
(* Date arithmetic.  Day 0 of the clock is a Sunday, as Date.getDay() = 0. *)

MsPerMinute == 60 * 1000
MsPerHour == 60 * MsPerMinute
MsPerDay == 24 * MsPerHour

getDay(t) == (t \div MsPerDay) % 7
getHours(t) == (t \div MsPerHour) % 24
getMinutes(t) == (t \div MsPerMinute) % 60

\* the instant h:m:s on day `day` (day 1 = the first Monday)
At(day, h, m, s) == day * MsPerDay + h * MsPerHour + m * MsPerMinute + s * 1000

-----------------------------------------------------------------------------
(* Events.                                                                  *)

MakeEvent(t, v) ==
  [ timestamp    |-> t,
    value        |-> v,
    dayOfWeek    |-> getDay(t),
    hourOfDay    |-> getHours(t),
    minuteOfHour |-> getMinutes(t),
    timeMinutes  |-> getHours(t) * 60 + getMinutes(t) ]

NoEvent == MakeEvent(0, FALSE)

(* JSON.stringify(history): the text lists, event by event, the members in  *)
(* the order in which recordDeviceEvent created them                         *)
stringify(history) ==
  [ i \in 1..Len(history) |->
      << history[i].timestamp, history[i].value, history[i].dayOfWeek,
         history[i].hourOfDay, history[i].minuteOfHour, history[i].timeMinutes >> ]

\* JSON.parse(historyJson)
parse(historyJson) ==
  [ i \in 1..Len(historyJson) |->
      [ timestamp    |-> historyJson[i][1],
        value        |-> historyJson[i][2],
        dayOfWeek    |-> historyJson[i][3],
        hourOfDay    |-> historyJson[i][4],
        minuteOfHour |-> historyJson[i][5],
        timeMinutes  |-> historyJson[i][6] ] ]

-----------------------------------------------------------------------------
(* Schedule engine: calculateNextEvent.                                     *)

Infinity == 2147483647

Period(mode) == IF mode THEN 60 ELSE 7 * 24 * 60

\* a variant of TestDelay that takes an event of the current minute as due now
TestDelayNoWrap(event, now) ==
  IF event.minuteOfHour >= getMinutes(now)
    THEN event.minuteOfHour - getMinutes(now)
    ELSE (60 - getMinutes(now)) + event.minuteOfHour

\* test mode, lines 1809-1813
TestDelay(event, now) ==
  IF event.minuteOfHour > getMinutes(now)
    THEN event.minuteOfHour - getMinutes(now)
    ELSE (60 - getMinutes(now)) + event.minuteOfHour

\* a variant of NormalDelay that wraps after 8 days instead of 7
NormalDelayLongWeek(event, now) ==
  LET currentDayOfWeek == getDay(now)
      currentTimeMinutes == getHours(now) * 60 + getMinutes(now)
  IN IF event.dayOfWeek = currentDayOfWeek
       THEN IF event.timeMinutes > currentTimeMinutes
              THEN event.timeMinutes - currentTimeMinutes
              ELSE (8 * 24 * 60) - currentTimeMinutes + event.timeMinutes
       ELSE LET d == event.dayOfWeek - currentDayOfWeek
                daysUntil == IF d < 0 THEN d + 7 ELSE d
            IN (daysUntil * 24 * 60) - currentTimeMinutes + event.timeMinutes

\* normal mode, lines 1828-1839
NormalDelay(event, now) ==
  LET currentDayOfWeek == getDay(now)
      currentTimeMinutes == getHours(now) * 60 + getMinutes(now)
  IN IF event.dayOfWeek = currentDayOfWeek
       THEN IF event.timeMinutes > currentTimeMinutes
              THEN event.timeMinutes - currentTimeMinutes
              ELSE (7 * 24 * 60) - currentTimeMinutes + event.timeMinutes
       ELSE LET d == event.dayOfWeek - currentDayOfWeek
                daysUntil == IF d < 0 THEN d + 7 ELSE d
            IN (daysUntil * 24 * 60) - currentTimeMinutes + event.timeMinutes

DelayMinutes(event, mode, now) ==
  IF mode THEN TestDelay(event, now) ELSE NormalDelay(event, now)

NoResult == [found |-> FALSE, nextEvent |-> NoEvent, minDelay |-> Infinity]

\* the for-loops of lines 1806-1819 and 1825-1845, from index i on
RECURSIVE ScanEvents(_, _, _, _, _)
ScanEvents(history, i, mode, now, best) ==
  IF i > Len(history) THEN best
  ELSE LET delayMinutes == DelayMinutes(history[i], mode, now)
           keep == IF delayMinutes < best.minDelay /\ delayMinutes > 0
                     THEN [found |-> TRUE, nextEvent |-> history[i],
                           minDelay |-> delayMinutes]
                     ELSE best
       IN ScanEvents(history, i + 1, mode, now, keep)

\* a variant of ScanEvents that replaces the kept event on an equal delay
RECURSIVE ScanLastTie(_, _, _, _, _)
ScanLastTie(history, i, mode, now, best) ==
  IF i > Len(history) THEN best
  ELSE LET delayMinutes == DelayMinutes(history[i], mode, now)
           keep == IF delayMinutes <= best.minDelay /\ delayMinutes > 0
                     THEN [found |-> TRUE, nextEvent |-> history[i],
                           minDelay |-> delayMinutes]
                     ELSE best
       IN ScanLastTie(history, i + 1, mode, now, keep)

\* a variant of calculateNextEvent that returns the last of several events
\* with the minimal delay
calculateLastTie(history, mode, now) == ScanLastTie(history, 1, mode, now, NoResult)

\* lines 1797-1853
calculateNextEvent(history, mode, now) == ScanEvents(history, 1, mode, now, NoResult)

-----------------------------------------------------------------------------
(* History store: recordDeviceEvent, daily cleanup, saveDeviceHistory.      *)

MAX_EVENTS == 10000

\* const keepDuration = 8 * 24 * 60 * 60 * 1000
KeepDuration == 8 * 24 * 60 * 60 * 1000

HistoryOf(map, k) == IF k \in DOMAIN map THEN map[k] ELSE <<>>

\* lines 1679-1685: the value differs from the last recorded one
Accepts(map, k, v) ==
  LET history == HistoryOf(map, k)
  IN history = <<>> \/ history[Len(history)].value # v

\* a variant of Trim that removes nothing
TrimKeepsAll(history, now) == history

\* history.filter(e => e.timestamp > cutoffTime), cutoffTime = now - keepDuration
Trim(history, now) ==
  LET cutoffTime == now - KeepDuration
  IN SelectSeq(history, LAMBDA e: e.timestamp > cutoffTime)

\* history.slice(-MAX_EVENTS)
Cap(history) ==
  IF Len(history) > MAX_EVENTS
    THEN SubSeq(history, Len(history) - MAX_EVENTS + 1, Len(history))
    ELSE history

\* history.push(event): the array as every holder of the old array sees it
Pushed(map, k, v, now) == HistoryOf(map, k) \o <<MakeEvent(now, v)>>

\* a variant of Appended without the duplicate detection of lines 1679-1685
AppendedNoDedup(map, k, v, now) ==
  MapSet(map, k, Cap(Trim(Pushed(map, k, v, now), now)))

\* lines 1671-1711: the map after recordDeviceEvent(k, v)
Appended(map, k, v, now) ==
  IF Accepts(map, k, v)
    THEN MapSet(map, k, Cap(Trim(Pushed(map, k, v, now), now)))
    ELSE map

\* a variant of saveDeviceHistory that writes the blob of every key
saveEveryHistory(store, map, k) ==
  [store EXCEPT
     !.history = [sk \in DOMAIN @ \cup {StorageKey(x) : x \in DOMAIN map} |->
                    IF \E x \in DOMAIN map : StorageKey(x) = sk
                      THEN stringify(map[CHOOSE x \in DOMAIN map : StorageKey(x) = sk])
                      ELSE @[sk]],
     !.written = [x \in DOMAIN @ \cup DOMAIN map |->
                    IF x \in DOMAIN map THEN map[x] ELSE @[x]]]

(* saveDeviceHistory: settings.set('device_history_' + storageKey,           *)
(* JSON.stringify(history)).  `written` remembers, per tracking key, the     *)
(* array the key's last save was given.                                      *)
saveDeviceHistory(store, map, k) ==
  IF k \in DOMAIN map
    THEN [store EXCEPT !.history = MapSet(@, StorageKey(k), stringify(map[k])),
                       !.written = MapSet(@, k, map[k])]
    ELSE store

\* a variant of removeDeviceHistory that unsets every key's history
removeEveryHistory(store, k) ==
  [store EXCEPT !.history = EmptyMap, !.written = EmptyMap]

\* removeDeviceHistory: settings.unset('device_history_' + storageKey)
removeDeviceHistory(store, k) ==
  [store EXCEPT !.history = MapDelete(@, StorageKey(k)),
                !.written = MapDelete(@, k)]

\* a variant of saveTrackedDevices that drops the histories of untracked keys
saveTrackedAndPrune(store, tracked) ==
  [store EXCEPT
     !.trackedDevices = DOMAIN tracked,
     !.history = [sk \in {x \in DOMAIN @ : \E k \in DOMAIN tracked : StorageKey(k) = x}
                    |-> @[sk]],
     !.written = [k \in DOMAIN @ \cap DOMAIN tracked |-> @[k]]]

\* saveTrackedDevices: settings.set('trackedDevices', Array.from(trackedDevices.keys()))
saveTrackedDevices(store, tracked) == [store EXCEPT !.trackedDevices = DOMAIN tracked]

\* saveVacationMode: settings.set('vacationModeActive', this.vacationModeActive)
saveVacationMode(store, active) == [store EXCEPT !.vacationModeActive = active]

(* A timer callback holds the history array it was armed with.  `shared`    *)
(* says that this array is still the object stored in deviceHistory.        *)

\* the array was changed in place: every holder sees the new contents
SeenInPlace(closures, k, contents, replaced) ==
  { IF c.key = k /\ c.shared
      THEN [c EXCEPT !.history = contents, !.shared = ~replaced]
      ELSE c : c \in closures }

\* the key now maps to another array (or to none): holders keep the old one
Detached(closures, ks) ==
  { IF c.key \in ks THEN [c EXCEPT !.shared = FALSE] ELSE c : c \in closures }

\* what recordDeviceEvent(k, v) does to the arrays held by callbacks
HeldAfterRecord(closures, map, k, v, now) ==
  IF Accepts(map, k, v)
    THEN SeenInPlace(closures, k, Pushed(map, k, v, now), TRUE)
    ELSE closures

\* startCleanupTimer, lines 2170-2179: every key's array is replaced
RECURSIVE SaveAll(_, _, _)
SaveAll(store, map, ks) ==
  IF ks = {} THEN store
  ELSE LET k == CHOOSE x \in ks : TRUE
       IN SaveAll(saveDeviceHistory(store, map, k), map, ks \ {k})

Cleaned(map, now) == [k \in DOMAIN map |-> Trim(map[k], now)]

-----------------------------------------------------------------------------
(* Schedule engine: scheduleNextAction.  S = [timers, scheduledTimeouts].   *)

Range(f) == {f[x] : x \in DOMAIN f}

\* a handle no armed timer, map entry or running callback carries
FreeHandle(S) ==
  LET used == {t.id : t \in S.timers} \cup Range(S.scheduledTimeouts)
                \cup {h.id : h \in handlers}
  IN CHOOSE n \in 1..(Cardinality(used) + 1) : n \notin used

\* a variant of ClearExisting that cancels nothing
ClearNone(S, deviceId) == S.timers

\* homey.clearTimeout(this.scheduledTimeouts.get(deviceId)), lines 1906-1908
ClearExisting(S, deviceId) ==
  IF deviceId \in DOMAIN S.scheduledTimeouts
    THEN {t \in S.timers : t.id # S.scheduledTimeouts[deviceId]}
    ELSE S.timers

\* lines 1866-1919; `shared`: `history` is the array stored in deviceHistory
ArmNext(S, deviceId, history, shared, mode, now) ==
  IF history = <<>> THEN S
  ELSE LET result == calculateNextEvent(history, mode, now)
       IN IF result.found
            THEN LET delayMs == result.minDelay * 60 * 1000
                     timeout == [ id      |-> FreeHandle(S),
                                  key     |-> deviceId,
                                  value   |-> result.nextEvent.value,
                                  event   |-> result.nextEvent,
                                  history |-> history,
                                  shared  |-> shared,
                                  due     |-> now + delayMs ]
                 IN [ timers |-> ClearExisting(S, deviceId) \cup {timeout},
                      scheduledTimeouts |->
                        MapSet(S.scheduledTimeouts, deviceId, timeout.id) ]
            ELSE S

\* a variant of scheduleNextAction without the test of lines 1861-1864
ScheduleWhileDisabled(S, deviceId, history, shared, active, mode, now) ==
  ArmNext(S, deviceId, history, shared, mode, now)

\* lines 1855-1922: nothing is armed while vacationModeActive is false
scheduleNextAction(S, deviceId, history, shared, active, mode, now) ==
  IF ~active THEN S
  ELSE ArmNext(S, deviceId, history, shared, mode, now)

\* a variant of ScheduleEach that leaves the loop after its first key
ScheduleFirst(S, ks, map, active, mode, now) ==
  IF ks = {} THEN S
  ELSE LET k == CHOOSE x \in ks : TRUE
       IN scheduleNextAction(S, k, map[k], TRUE, active, mode, now)

\* for (const [deviceId, history] of this.deviceHistory.entries())
\*   await this.scheduleNextAction(deviceId, history)
RECURSIVE ScheduleEach(_, _, _, _, _, _)
ScheduleEach(S, ks, map, active, mode, now) ==
  IF ks = {} THEN S
  ELSE LET k == CHOOSE x \in ks : TRUE
       IN ScheduleEach(scheduleNextAction(S, k, map[k], TRUE, active, mode, now),
                       ks \ {k}, map, active, mode, now)

Sched == [timers |-> timers, scheduledTimeouts |-> scheduledTimeouts]

-----------------------------------------------------------------------------
(* Initial state sync: the scan of lines 2050-2058.                         *)

SyncPeriodMs(mode) == IF mode THEN 60 * 60 * 1000 ELSE 7 * 24 * 60 * 60 * 1000

NoMatch == [found |-> FALSE, event |-> NoEvent]

RECURSIVE ScanTarget(_, _, _, _)
ScanTarget(history, i, targetTime, last) ==
  IF i > Len(history) THEN last
  ELSE IF history[i].timestamp <= targetTime
         THEN ScanTarget(history, i + 1, targetTime,
                         [found |-> TRUE, event |-> history[i]])
         ELSE last    \* break

\* a variant of lastEventBeforeTarget that takes the newest event
newestEvent(history, targetTime) ==
  IF history = <<>> THEN NoMatch
  ELSE [found |-> TRUE, event |-> history[Len(history)]]

lastEventBeforeTarget(history, targetTime) == ScanTarget(history, 1, targetTime, NoMatch)

-----------------------------------------------------------------------------
(* Bounds and sampled inputs.                                               *)

MaxCommands == 2       \* Spec: commands, value changes, restarts and I/O faults
MaxStoreCommands == 3  \* SpecStore: the same, for the history store alone
MaxHist == 5           \* events per history that the environment builds up
MaxDeepCommands == 3   \* SpecGroup, SpecSweep: the same, for three-command scenarios
MaxHandlers == 2       \* timer callbacks suspended in executeAction at a time
MaxRequests == 1       \* trackDevice calls suspended at a time
MaxPasses == 1         \* enable / restart passes suspended at a time
MaxImport == 2         \* Insights entries per import
MaxStarts == 2         \* startTrackingDevice calls suspended at a time
MaxRaceCommands == 4   \* SpecRace: commands and faults of the environment

\* SpecStore: the keys the seeding endpoints are called for
SeedKeys == {K1}

\* SpecStore: the instants the clock passes through
StoreInstants ==
  { At(8, 19, 0, 0),      \* a Monday, 19:00:00
    At(8, 19, 0, 30),     \* 30 seconds later
    At(16, 19, 0, 0),     \* 8 days after the first instant, to the ms
    At(16, 19, 1, 0) }    \* more than 8 days after both

\* Spec: the instants the clock passes through, besides the timers' due times
ReplayStart == At(8, 19, 0, 0)   \* the Monday after the recorded one, 19:00:00
ReplayInstants == {ReplayStart, At(8, 19, 31, 0)}

\* SpecOverlap: the same evening up to 20:00
OverlapInstants == {ReplayStart, At(8, 20, 0, 0)}

\* SpecSweep: the evening after, when every recorded event is more than 8
\* days old and the daily cleanup has not run yet, up to 20:01
SweepStart == At(9, 19, 31, 0)
SweepInstants == {SweepStart, At(9, 20, 1, 0)}

Min(S) == CHOOSE x \in S : \A y \in S : x <= y

-----------------------------------------------------------------------------
(* The record of the last operation.                                        *)

NoOp ==
  [ op       |-> "none",
    key      |-> "",
    value    |-> FALSE,
    rec      |-> FALSE,      \* recordDeviceEvent(key, value) was called
    accepted |-> FALSE,      \* and it appended the event
    base     |-> -1,         \* history length before the accepted call it repeats
    first    |-> <<>>,       \* and that history
    stored   |-> <<>>,       \* the persisted histories before the operation
    pre      |-> EmptyMap,   \* deviceHistory before the operation
    target   |-> 0,          \* targetTime of the syncInitialStates that ended
    clean    |-> FALSE,      \* and it met no device error and no disturbance
    outcome  |-> EmptyMap,   \* and the status it logged for each key
    wrote    |-> FALSE,      \* setCapabilityValue(key, value) was issued
    removed  |-> {},         \* removedDevices of the trackDevice that returned
    active   |-> FALSE ]     \* vacationModeActive when it was issued

Op(name, k, v) == [NoOp EXCEPT !.op = name, !.key = k, !.value = v]

\* recordDeviceEvent(k, v) called inside operation `name`
RecOp(name, k, v) ==
  [ Op(name, k, v) EXCEPT
      !.rec = TRUE,
      !.accepted = Accepts(deviceHistory, k, v),
      !.pre = deviceHistory,
      !.stored = settings.history,
      !.base = IF lastOp.rec /\ lastOp.accepted /\ lastOp.key = k /\ lastOp.value = v
                 THEN Len(HistoryOf(lastOp.pre, k)) ELSE -1,
      !.first = IF lastOp.rec /\ lastOp.accepted /\ lastOp.key = k /\ lastOp.value = v
                 THEN HistoryOf(lastOp.pre, k) ELSE <<>> ]

WriteOp(name, k, v) ==
  [Op(name, k, v) EXCEPT !.wrote = TRUE, !.active = vacationModeActive]

-----------------------------------------------------------------------------
(* Initial states.                                                           *)

\* no cleanup callback is running
NoSweep == [running |-> FALSE, cutoffTime |-> 0, visited |-> {}, entries |-> EmptyMap]

\* one more command or fault of the environment
Spend == budget > 0 /\ budget' = budget - 1

\* a device call succeeds, or fails at the environment's expense
Fault(ok) == IF ok THEN UNCHANGED budget ELSE Spend

(* The listener closures registered with makeCapabilityInstance (line 1569) *)
(* and the intervals started by setInterval (line 1576).  The closures of    *)
(* one key and kind behave alike, so they are told apart by a number only.   *)
Subscribed(S, k, kind) == {s \in S : s.key = k /\ s.kind = kind}

\* one more listener, or one more interval, for key k
Subscribe(S, k, kind) ==
  S \cup {[key |-> k, kind |-> kind, n |-> Cardinality(Subscribed(S, k, kind)) + 1]}

\* lines 1642-1654: clearInterval of the entry's pollInterval, removeListener
\* of the entry's listener; closures the entry does not hold are left alone
Unsubscribe(S, tracked, k) ==
  LET kind == tracked[k].mode
  IN S \ {s \in S : /\ s.key = k
                     /\ s.kind = kind
                     /\ s.n = Cardinality(Subscribed(S, k, kind))}

\* the closures in place when every tracked key has the one its entry holds
Registered(tracked) ==
  {[key |-> k, kind |-> tracked[k].mode, n |-> 1] : k \in DOMAIN tracked}

NoSettings ==
  [ vacationModeActive |-> FALSE,
    testMode           |-> FALSE,
    trackedDevices     |-> {},
    history            |-> EmptyMap,    \* storage key -> JSON text
    written            |-> EmptyMap ]

NoCalc == [done |-> FALSE, result |-> NoResult]

NoFires == [kept |-> FALSE, log |-> {}]

\* SpecStore: a fresh install after onInit
InitFresh ==
  /\ clock = At(8, 19, 0, 0)
  /\ vacationModeActive = FALSE
  /\ testMode = FALSE
  /\ trackedDevices = EmptyMap
  /\ deviceHistory = EmptyMap
  /\ scheduledTimeouts = EmptyMap
  /\ timers = {}
  /\ handlers = {}
  /\ passes = {}
  /\ settings = NoSettings
  /\ liveValue = [k \in Keys |-> FALSE]
  /\ valueLog = [k \in Keys |-> <<[t |-> 0, v |-> FALSE]>>]
  /\ lastOp = NoOp
  /\ budget = MaxStoreCommands
  /\ requests = {}
  /\ sweep = NoSweep
  /\ starts = {}
  /\ subscriptions = Registered(trackedDevices)
  /\ calcResult = NoCalc
  /\ fires = NoFires

(* Spec: both keys have been tracked by listener for more than a week; last  *)
(* Monday d1 was switched on at 19:30:05 and off at 19:30:40, d2 on at       *)
(* 19:00:00 and off at 19:15:00.  It is Monday 19:00:00 again.               *)
RecordedChanges ==
  [ k \in Keys |->
      IF k = K1 THEN << [t |-> At(1, 19, 30, 5),  v |-> TRUE],
                        [t |-> At(1, 19, 30, 40), v |-> FALSE] >>
                ELSE << [t |-> At(1, 19, 0, 0),   v |-> TRUE],
                        [t |-> At(1, 19, 15, 0),  v |-> FALSE] >> ]

RecordedHistory ==
  [ k \in Keys |-> [i \in 1..2 |-> MakeEvent(RecordedChanges[k][i].t,
                                             RecordedChanges[k][i].v)] ]

\* the recorded scenario at time `now`, with `commands` left to the environment
Recorded(now, commands) ==
  /\ clock = now
  /\ vacationModeActive = FALSE
  /\ testMode = FALSE
  /\ trackedDevices = [k \in Keys |-> [mode |-> "listener", lastValue |-> FALSE]]
  /\ deviceHistory = RecordedHistory
  /\ scheduledTimeouts = EmptyMap
  /\ timers = {}
  /\ handlers = {}
  /\ passes = {}
  /\ settings = SaveAll([NoSettings EXCEPT !.trackedDevices = Keys],
                        RecordedHistory, Keys)
  /\ liveValue = [k \in AllKeys |-> FALSE]
  /\ valueLog = [k \in AllKeys |-> <<[t |-> 0, v |-> FALSE]>> \o
                                    (IF k \in Keys THEN RecordedChanges[k] ELSE <<>>)]
  /\ lastOp = NoOp
  /\ budget = commands
  /\ requests = {}
  /\ sweep = NoSweep
  /\ starts = {}
  /\ subscriptions = Registered(trackedDevices)
  /\ calcResult = NoCalc
  /\ fires = NoFires

Init == Recorded(ReplayStart, MaxCommands)

InitDeep == Recorded(ReplayStart, MaxDeepCommands)

InitSweep == Recorded(SweepStart, MaxDeepCommands)

-----------------------------------------------------------------------------
(* Time.                                                                    *)

\* the next instant of interest: a sampled instant or a timer's due time
NextTimes(instants) ==
  {i \in instants : i > clock} \cup {t.due : t \in {x \in timers : x.due > clock}}

Tick(instants) ==
  /\ \E i \in instants : i > clock
  /\ clock' = Min(NextTimes(instants))
  /\ lastOp' = NoOp
  /\ UNCHANGED <<vacationModeActive, testMode, trackedDevices, deviceHistory,
                 scheduledTimeouts, timers, handlers, passes, settings, liveValue,
                 valueLog, budget, calcResult, fires, requests, sweep, starts, subscriptions>>

-----------------------------------------------------------------------------
(* Tracking subsystem.                                                      *)

\* a syncInitialStates in flight, with the caller it returns to
NewPass(kind, pc, running) ==
  [ id         |-> CHOOSE n \in 1..(Cardinality(running) + 1) :
                     \A p \in running : p.id # n,
    kind       |-> kind,       \* "enable" or "restart"
    pc         |-> pc,         \* "trigger", "delay", "scan", "read", "write"
    targetTime |-> 0,
    outcome    |-> EmptyMap,   \* key -> status pushed to syncActions
    key        |-> "",
    value      |-> FALSE,
    scanned    |-> EmptyMap,   \* key -> the history the scan went through
    read       |-> EmptyMap,   \* key -> currentState as getDevice returned it
    writes     |-> <<>>,       \* the setCapabilityValue calls issued, in order
    disturbed  |-> FALSE ]     \* a device or the tracked set changed meanwhile

\* the passes in flight, once something they do not see has happened
Disturbed == {[p EXCEPT !.disturbed = TRUE] : p \in passes}

Tracked(k) == k \in DOMAIN trackedDevices
Listening(k) == Tracked(k) /\ trackedDevices[k].mode = "listener"
Polling(k) == Tracked(k) /\ trackedDevices[k].mode = "poll"

\* a listener of key k is registered; a poll interval of key k is running
Heard(k) == Subscribed(subscriptions, k, "listener") # {}
Polled(k) == Subscribed(subscriptions, k, "poll") # {}

\* a variant of startTrackingDevice without the test of lines 1537-1540
TrackAgain(tracked, k, how, value) ==
  IF how = "fail" THEN tracked
  ELSE MapSet(tracked, k, [mode |-> how, lastValue |-> value])

\* a variant of startTrackingDevice that stores the entry before the lookup
TrackBeforeLookup(tracked, k, how, value) ==
  IF k \in DOMAIN tracked THEN tracked
  ELSE MapSet(tracked, k, [mode |-> IF how = "fail" THEN "poll" ELSE how,
                           lastValue |-> value])

(* startTrackingDevice, lines 1536-1631: trackedDevices after the call.      *)
(* `how` is what the device allows: a listener, polling only, or neither     *)
(* (getDevice throws or the capability is missing).                          *)
startTrackingDevice(tracked, k, how, value) ==
  IF k \in DOMAIN tracked THEN tracked
  ELSE IF how = "fail" THEN tracked
  ELSE MapSet(tracked, k, [mode |-> how, lastValue |-> value])

\* the call of startTrackingDevice(k) as a whole
StartTracking(k, how) ==
  LET started == ~Tracked(k) /\ how # "fail"
  IN /\ how \in {"listener", "poll", "fail"}
     /\ Spend
     /\ trackedDevices' = startTrackingDevice(trackedDevices, k, how, liveValue[k])
     /\ deviceHistory' =
          IF started /\ how = "listener" /\ k \notin DOMAIN deviceHistory
            THEN MapSet(deviceHistory, k, <<>>) ELSE deviceHistory
     /\ settings' = IF started THEN saveTrackedDevices(settings, trackedDevices')
                    ELSE settings
     /\ subscriptions' = IF started THEN Subscribe(subscriptions, k, how)
                         ELSE subscriptions
     /\ passes' = IF Tracked(k) THEN passes ELSE Disturbed
     /\ lastOp' = IF Tracked(k) THEN Op("alreadyTracked", k, FALSE)
                  ELSE IF how = "fail" THEN Op("startFailed", k, FALSE)
                  ELSE NoOp
     /\ UNCHANGED <<clock, vacationModeActive, testMode, scheduledTimeouts, timers,
                    handlers, liveValue, valueLog, calcResult, fires, requests, sweep,
                    starts>>

\* stopTrackingDevice, lines 1633-1669; a key that is not tracked is left alone
StopTracking(k) ==
  /\ Spend
  /\ IF Tracked(k)
       THEN /\ trackedDevices' = MapDelete(trackedDevices, k)
            /\ timers' = ClearExisting(Sched, k)
            /\ scheduledTimeouts' = MapDelete(scheduledTimeouts, k)
            /\ settings' = saveTrackedDevices(settings, trackedDevices')
            /\ subscriptions' = Unsubscribe(subscriptions, trackedDevices, k)
            /\ lastOp' = Op("stopTracking", k, FALSE)
       ELSE /\ lastOp' = NoOp
            /\ UNCHANGED <<trackedDevices, timers, scheduledTimeouts, settings,
                           subscriptions>>
  /\ UNCHANGED <<clock, vacationModeActive, testMode, deviceHistory, handlers,
                 passes, liveValue, valueLog, calcResult, fires, requests, sweep,
                 starts>>

(* exports.trackDevice, api.js lines 187-238.  The call is suspended twice:   *)
(* on its own getDevice (line 195), and inside startTrackingDevice on        *)
(* getDevice and makeCapabilityInstance (app.js lines 1545 and 1569).        *)

\* the tracked keys of the devices that are members of the group `deviceId`
memberTrackingKeys(tracked, deviceId) ==
  {key \in DOMAIN tracked : parseTrackingKey(key).deviceId \in deviceIds[deviceId]}

\* the timers left once stopTrackingDevice has run for each key of `ks`
RECURSIVE ClearEach(_, _)
ClearEach(S, ks) ==
  IF ks = {} THEN S
  ELSE LET k == CHOOSE x \in ks : TRUE
       IN ClearEach([ timers |-> ClearExisting(S, k),
                      scheduledTimeouts |-> MapDelete(S.scheduledTimeouts, k) ],
                    ks \ {k})

\* the closures left once stopTrackingDevice has run for each key of `ks`
RECURSIVE UnsubscribeEach(_, _, _)
UnsubscribeEach(S, tracked, ks) ==
  IF ks = {} THEN S
  ELSE LET k == CHOOSE x \in ks : TRUE
       IN UnsubscribeEach(Unsubscribe(S, tracked, k), tracked, ks \ {k})

\* the request arrives: trackDevice runs up to its getDevice call
TrackDevice(k) ==
  /\ Spend
  /\ Cardinality(requests) < MaxRequests
  /\ UNCHANGED <<sweep, starts, subscriptions>>
  /\ requests' = requests \cup {[key |-> k, pc |-> "lookup", removedDevices |-> {}]}
  /\ lastOp' = NoOp
  /\ UNCHANGED <<clock, vacationModeActive, testMode, trackedDevices, deviceHistory,
                 scheduledTimeouts, timers, handlers, passes, settings, liveValue,
                 valueLog, calcResult, fires>>

(* getDevice returns (or throws): the tracked keys of a group's members are  *)
(* stopped, lines 202-230, then startTrackingDevice runs up to its getDevice *)
(* call, or returns at once for a key that is tracked already                *)
TrackLookupDone(r, ok) ==
  /\ r \in requests
  /\ UNCHANGED <<sweep, starts>>
  /\ r.pc = "lookup"
  /\ Fault(ok)
  /\ LET deviceId == parseTrackingKey(r.key).deviceId
         trackedKeys == IF isDeviceGroup(deviceId)
                          THEN memberTrackingKeys(trackedDevices, deviceId)
                          ELSE {}
         S == ClearEach(Sched, trackedKeys)
         tracked == [k \in DOMAIN trackedDevices \ trackedKeys |-> trackedDevices[k]]
     IN IF ~ok
          THEN /\ requests' = requests \ {r}
               /\ lastOp' = Op("trackFailed", r.key, FALSE)
               /\ UNCHANGED <<trackedDevices, timers, scheduledTimeouts, settings,
                              passes, subscriptions>>
          ELSE /\ trackedDevices' = tracked
               /\ subscriptions' =
                    UnsubscribeEach(subscriptions, trackedDevices, trackedKeys)
               /\ timers' = S.timers
               /\ scheduledTimeouts' = S.scheduledTimeouts
               /\ settings' = IF trackedKeys = {} THEN settings
                              ELSE saveTrackedDevices(settings, tracked)
               /\ passes' = IF trackedKeys = {} THEN passes ELSE Disturbed
               /\ IF r.key \in DOMAIN tracked
                    THEN /\ requests' = requests \ {r}
                         /\ lastOp' = [Op("trackDevice", r.key, FALSE)
                                         EXCEPT !.removed = trackedKeys]
                    ELSE /\ requests' = (requests \ {r}) \cup
                              {[r EXCEPT !.pc = "start", !.removedDevices = trackedKeys]}
                         /\ lastOp' = NoOp
  /\ UNCHANGED <<clock, vacationModeActive, testMode, deviceHistory, handlers,
                 liveValue, valueLog, calcResult, fires>>

(* startTrackingDevice resumes, lines 1552-1630: the entry is stored and the *)
(* tracked list saved, or the error is thrown on to the caller of the api     *)
TrackStartDone(r, how) ==
  /\ r \in requests
  /\ UNCHANGED <<sweep, starts>>
  /\ r.pc = "start"
  /\ how \in {"listener", "poll", "fail"}
  /\ Fault(how # "fail")
  /\ requests' = requests \ {r}
  /\ IF how = "fail"
       THEN /\ lastOp' = Op("trackFailed", r.key, FALSE)
            /\ UNCHANGED <<trackedDevices, deviceHistory, settings, passes,
                           subscriptions>>
       ELSE /\ trackedDevices' =
                 MapSet(trackedDevices, r.key, [mode |-> how, lastValue |-> liveValue[r.key]])
            /\ subscriptions' = Subscribe(subscriptions, r.key, how)
            /\ deviceHistory' =
                 IF how = "listener" /\ r.key \notin DOMAIN deviceHistory
                   THEN MapSet(deviceHistory, r.key, <<>>) ELSE deviceHistory
            /\ settings' = saveTrackedDevices(settings, trackedDevices')
            /\ passes' = Disturbed
            /\ lastOp' = [Op("trackDevice", r.key, FALSE)
                            EXCEPT !.removed = r.removedDevices]
  /\ UNCHANGED <<clock, vacationModeActive, testMode, scheduledTimeouts, timers,
                 handlers, liveValue, valueLog, calcResult, fires>>

(* startTrackingDevice step by step, lines 1536-1631: the call is suspended *)
(* on getDevice (line 1545) and on makeCapabilityInstance (line 1569).       *)

\* the call arrives: lines 1537-1545, the test of the table and the lookup
StartCall(k) ==
  /\ Spend
  /\ Cardinality(starts) < MaxStarts
  /\ IF Tracked(k)
       THEN /\ lastOp' = Op("alreadyTracked", k, FALSE)
            /\ UNCHANGED starts
       ELSE /\ starts' = starts \cup
                 {[ id  |-> CHOOSE n \in 1..MaxStarts : \A s \in starts : s.id # n,
                    key |-> k,
                    pc  |-> "getDevice",
                    value |-> FALSE ]}
            /\ lastOp' = NoOp
  /\ UNCHANGED <<clock, vacationModeActive, testMode, trackedDevices, deviceHistory,
                 scheduledTimeouts, timers, handlers, passes, settings, liveValue,
                 valueLog, calcResult, fires, requests, sweep, subscriptions>>

\* getDevice returns, or throws (as does a device without the capability):
\* lines 1545-1569, up to the call of makeCapabilityInstance
StartDeviceDone(s, ok) ==
  /\ s \in starts
  /\ s.pc = "getDevice"
  /\ Fault(ok)
  /\ IF ok
       THEN /\ starts' = (starts \ {s}) \cup
                 {[s EXCEPT !.pc = "makeCapabilityInstance", !.value = liveValue[s.key]]}
            /\ lastOp' = NoOp
       ELSE /\ starts' = starts \ {s}
            /\ lastOp' = Op("startFailed", s.key, FALSE)
  /\ UNCHANGED <<clock, vacationModeActive, testMode, trackedDevices, deviceHistory,
                 scheduledTimeouts, timers, handlers, passes, settings, liveValue,
                 valueLog, calcResult, fires, requests, sweep, subscriptions>>

\* makeCapabilityInstance resolves, lines 1570 and 1611-1625, or rejects and
\* the call falls back to setInterval, lines 1571-1608
StartRegisterDone(s, ok) ==
  /\ s \in starts
  /\ s.pc = "makeCapabilityInstance"
  /\ Fault(ok)
  /\ LET k == s.key
         how == IF ok THEN "listener" ELSE "poll"
     IN /\ subscriptions' = Subscribe(subscriptions, k, how)
        /\ trackedDevices' =
             MapSet(trackedDevices, k, [mode |-> how, lastValue |-> s.value])
        /\ deviceHistory' =
             IF ok /\ k \notin DOMAIN deviceHistory
               THEN MapSet(deviceHistory, k, <<>>) ELSE deviceHistory
        /\ settings' = saveTrackedDevices(settings, trackedDevices')
        /\ lastOp' = Op(IF ok THEN "startedListening" ELSE "startedPolling", k, FALSE)
  /\ starts' = starts \ {s}
  /\ passes' = Disturbed
  /\ UNCHANGED <<clock, vacationModeActive, testMode, scheduledTimeouts, timers,
                 handlers, liveValue, valueLog, calcResult, fires, requests, sweep>>

(* recordDeviceEvent(k, v) as the listener and the poll loop call it: what    *)
(* it stores, persists, and leaves in the arrays the callbacks hold.          *)
RecordStore(k, v) == Appended(deviceHistory, k, v, clock)
RecordSettings(k, v) ==
  IF Accepts(deviceHistory, k, v)
    THEN saveDeviceHistory(settings, RecordStore(k, v), k) ELSE settings
RecordHeld(closures, k, v) == HeldAfterRecord(closures, deviceHistory, k, v, clock)

\* a resident switches the device; a listener, if registered, is notified
DeviceChange(k) ==
  LET v == ~liveValue[k]
  IN /\ Spend
     /\ passes' = Disturbed
     /\ Heard(k) => Len(HistoryOf(deviceHistory, k)) < MaxHist
     /\ liveValue' = [liveValue EXCEPT ![k] = v]
     /\ valueLog' = [valueLog EXCEPT ![k] = Append(@, [t |-> clock, v |-> v])]
     /\ IF Heard(k)
          THEN /\ deviceHistory' = RecordStore(k, v)
               /\ settings' = RecordSettings(k, v)
               /\ timers' = RecordHeld(timers, k, v)
               /\ handlers' = RecordHeld(handlers, k, v)
               /\ lastOp' = RecOp("listener", k, v)
          ELSE /\ UNCHANGED <<deviceHistory, settings, timers, handlers>>
               /\ lastOp' = NoOp
     /\ UNCHANGED <<clock, vacationModeActive, testMode, trackedDevices,
                    scheduledTimeouts, calcResult, fires, requests, sweep, starts, subscriptions>>

\* the listener is called again with the value the capability already has
ListenerRepeat(k) ==
  LET v == liveValue[k]
  IN /\ Heard(k)
     /\ Len(HistoryOf(deviceHistory, k)) < MaxHist
     /\ deviceHistory' = RecordStore(k, v)
     /\ settings' = RecordSettings(k, v)
     /\ timers' = RecordHeld(timers, k, v)
     /\ handlers' = RecordHeld(handlers, k, v)
     /\ lastOp' = RecOp("listener", k, v)
     /\ UNCHANGED <<clock, vacationModeActive, testMode, trackedDevices,
                    scheduledTimeouts, passes, liveValue, valueLog, budget,
                    calcResult, fires, requests, sweep, starts, subscriptions>>

\* the poll callback of lines 1576-1594 finds another value than lastValue
PollTick(k) ==
  LET currentValue == liveValue[k]
  IN /\ Polled(k)
     /\ Tracked(k)
     /\ trackedDevices[k].lastValue # currentValue
     /\ Len(HistoryOf(deviceHistory, k)) < MaxHist
     /\ trackedDevices' = [trackedDevices EXCEPT ![k].lastValue = currentValue]
     /\ deviceHistory' = RecordStore(k, currentValue)
     /\ settings' = RecordSettings(k, currentValue)
     /\ timers' = RecordHeld(timers, k, currentValue)
     /\ handlers' = RecordHeld(handlers, k, currentValue)
     /\ lastOp' = RecOp("poll", k, currentValue)
     /\ UNCHANGED <<clock, vacationModeActive, testMode, scheduledTimeouts, passes,
                    liveValue, valueLog, budget, calcResult, fires, requests, sweep, starts, subscriptions>>

-----------------------------------------------------------------------------
(* Replay mode: enableVacationMode, disableVacationMode, reloadSettings.    *)

(* enableVacationMode up to its first suspension, lines 1722-1750; it       *)
(* returns at once when the flag is set already, lines 1723-1726             *)
EnableVacationMode ==
  /\ Spend
  /\ IF vacationModeActive
       THEN /\ lastOp' = Op("alreadyEnabled", "", FALSE)
            /\ UNCHANGED <<vacationModeActive, settings, passes>>
       ELSE /\ Cardinality(passes) < MaxPasses
            /\ vacationModeActive' = TRUE
            /\ settings' = saveVacationMode(settings, TRUE)
            /\ passes' = passes \cup {NewPass("enable", "trigger", passes)}
            /\ lastOp' = NoOp
  /\ UNCHANGED <<clock, testMode, trackedDevices, deviceHistory, scheduledTimeouts,
                 timers, handlers, liveValue, valueLog, calcResult, fires,
                 requests, sweep, starts, subscriptions>>

(* disableVacationMode, lines 1768-1789; it returns at once when the flag   *)
(* is clear already, lines 1769-1772                                         *)
DisableVacationMode ==
  /\ Spend
  /\ IF vacationModeActive
       THEN /\ vacationModeActive' = FALSE
            /\ settings' = saveVacationMode(settings, FALSE)
            /\ timers' = {t \in timers : t.id \notin Range(scheduledTimeouts)}
            /\ scheduledTimeouts' = EmptyMap
       ELSE UNCHANGED <<vacationModeActive, settings, timers, scheduledTimeouts>>
  /\ lastOp' = NoOp
  /\ UNCHANGED <<clock, testMode, trackedDevices, deviceHistory, handlers, passes,
                 liveValue, valueLog, calcResult, fires, requests, sweep, starts, subscriptions>>

\* reloadSettings after the test-mode setting was changed, api.js lines 267-280
ReloadSettings ==
  LET newTestMode == ~testMode
      S == IF vacationModeActive
             THEN ScheduleEach(Sched, DOMAIN deviceHistory, deviceHistory,
                               vacationModeActive, newTestMode, clock)
             ELSE Sched
  IN /\ Spend
     /\ settings' = [settings EXCEPT !.testMode = newTestMode]
     /\ testMode' = newTestMode
     /\ timers' = S.timers
     /\ scheduledTimeouts' = S.scheduledTimeouts
     /\ lastOp' = Op("reloadSettings", "", FALSE)
     /\ UNCHANGED <<clock, vacationModeActive, trackedDevices, deviceHistory,
                    handlers, passes, liveValue, valueLog, calcResult, fires,
                    requests, sweep, starts, subscriptions>>

-----------------------------------------------------------------------------
(* syncInitialStates, run by enableVacationMode and by the restart callback. *)

SetPass(p, q) == (passes \ {p}) \cup {q}

\* const now = this.getCurrentDate(); targetTime = now - period, lines 2020-2029
PassStart(p) ==
  /\ p \in passes
  /\ p.pc \in {"trigger", "delay"}
  /\ passes' = SetPass(p, [p EXCEPT !.pc = "scan",
                                    !.targetTime = clock - SyncPeriodMs(testMode)])
  /\ lastOp' = NoOp
  /\ UNCHANGED <<clock, vacationModeActive, testMode, trackedDevices, deviceHistory,
                 scheduledTimeouts, timers, handlers, settings, liveValue, valueLog,
                 budget, calcResult, fires, requests, sweep, starts, subscriptions>>

\* one iteration of the loop of line 2033, up to its getDevice call
PassNext(p, k) ==
  /\ p \in passes
  /\ p.pc = "scan"
  /\ k \in DOMAIN deviceHistory
  /\ k \notin DOMAIN p.outcome
  /\ LET history == deviceHistory[k]
         match == lastEventBeforeTarget(history, p.targetTime)
         done(status) == [p EXCEPT !.outcome = MapSet(@, k, status)]
     IN passes' = SetPass(p,
          IF ~Tracked(k) THEN done("skipped")
          ELSE IF history = <<>> THEN done("no_history")
          ELSE IF match.found
                 THEN [p EXCEPT !.pc = "read", !.key = k, !.value = match.event.value,
                                !.scanned = MapSet(@, k, history)]
                 ELSE [done("no_historical_state") EXCEPT
                         !.scanned = MapSet(@, k, history)])
  /\ lastOp' = NoOp
  /\ UNCHANGED <<clock, vacationModeActive, testMode, trackedDevices, deviceHistory,
                 scheduledTimeouts, timers, handlers, settings, liveValue, valueLog,
                 budget, calcResult, fires, requests, sweep, starts, subscriptions>>

\* a variant of Caught in which the exception leaves the loop: the keys not
\* yet visited are never processed
Aborted(p, k) ==
  [p EXCEPT !.pc = "scan",
            !.outcome = [x \in DOMAIN deviceHistory \cup DOMAIN p.outcome \cup {k} |->
                           IF x = k THEN "error"
                           ELSE IF x \in DOMAIN p.outcome THEN p.outcome[x]
                           ELSE "aborted"]]

\* the catch block of lines 2083-2089: status 'error', the loop goes on
Caught(p, k) == [p EXCEPT !.pc = "scan", !.outcome = MapSet(@, k, "error")]

\* getDevice returns (or throws): lines 2066-2092
PassReadDone(p, ok) ==
  /\ p \in passes
  /\ p.pc = "read"
  /\ Fault(ok)
  /\ LET currentState == liveValue[p.key]
         done(status) == [p EXCEPT !.pc = "scan", !.outcome = MapSet(@, p.key, status)]
     IN IF ~ok
          THEN /\ passes' = SetPass(p, Caught(p, p.key))
               /\ lastOp' = NoOp
          ELSE IF currentState # p.value
            THEN /\ passes' = SetPass(p,
                      [p EXCEPT !.pc = "write",
                                !.read = MapSet(@, p.key, currentState),
                                !.writes = Append(@, [key |-> p.key, value |-> p.value])])
                 /\ lastOp' = WriteOp("syncWrite", p.key, p.value)
            ELSE /\ passes' = SetPass(p,
                      [done("already_correct") EXCEPT
                         !.read = MapSet(@, p.key, currentState)])
                 /\ lastOp' = NoOp
  /\ UNCHANGED <<clock, vacationModeActive, testMode, trackedDevices, deviceHistory,
                 scheduledTimeouts, timers, handlers, settings, liveValue, valueLog,
                 calcResult, fires, requests, sweep, starts, subscriptions>>

\* setCapabilityValue returns (or throws); the device's listener is notified
PassWriteDone(p, ok) ==
  /\ p \in passes
  /\ p.pc = "write"
  /\ Fault(ok)
  /\ LET k == p.key
         v == p.value
         done(status) == [p EXCEPT !.pc = "scan", !.outcome = MapSet(@, k, status)]
     IN IF ok
          THEN /\ passes' = SetPass(p, done("synced"))
               /\ liveValue' = [liveValue EXCEPT ![k] = v]
               /\ valueLog' = [valueLog EXCEPT ![k] = Append(@, [t |-> clock, v |-> v])]
               /\ IF Heard(k)
                    THEN /\ deviceHistory' = RecordStore(k, v)
                         /\ settings' = RecordSettings(k, v)
                         /\ timers' = RecordHeld(timers, k, v)
                         /\ handlers' = RecordHeld(handlers, k, v)
                         /\ lastOp' = RecOp("syncWritten", k, v)
                    ELSE /\ UNCHANGED <<deviceHistory, settings, timers, handlers>>
                         /\ lastOp' = Op("syncWritten", k, v)
          ELSE /\ passes' = SetPass(p, Caught(p, k))
               /\ lastOp' = Op("syncWriteFailed", k, v)
               /\ UNCHANGED <<deviceHistory, settings, timers, handlers, liveValue,
                              valueLog>>
  /\ UNCHANGED <<clock, vacationModeActive, testMode, trackedDevices,
                 scheduledTimeouts, calcResult, fires, requests, sweep, starts, subscriptions>>

\* the loop is over: enableVacationMode lines 1758-1761, loadState lines 1448-1455
PassFinish(p) ==
  /\ p \in passes
  /\ p.pc = "scan"
  /\ DOMAIN deviceHistory \subseteq DOMAIN p.outcome
  /\ LET ks == IF p.kind = "enable" THEN DOMAIN deviceHistory
               ELSE {k \in DOMAIN deviceHistory : Tracked(k)}
         S == ScheduleEach(Sched, ks, deviceHistory, vacationModeActive, testMode, clock)
     IN /\ timers' = S.timers
        /\ scheduledTimeouts' = S.scheduledTimeouts
  /\ passes' = passes \ {p}
  /\ lastOp' = [Op(IF p.kind = "enable" THEN "enabled" ELSE "restarted", "", FALSE)
                  EXCEPT !.target = p.targetTime,
                         !.outcome = p.outcome,
                         !.clean = /\ ~p.disturbed
                                   /\ \A k \in DOMAIN p.outcome : p.outcome[k] # "error"]
  /\ UNCHANGED <<clock, vacationModeActive, testMode, trackedDevices, deviceHistory,
                 handlers, settings, liveValue, valueLog, budget, calcResult, fires,
                 requests, sweep, starts, subscriptions>>

-----------------------------------------------------------------------------
(* Timer callbacks, lines 1910-1914, and executeAction, lines 1982-2013.    *)

\* a variant of Rearm in which the callback ends without scheduling
RearmNever(S, c) == S

Rearm(S, c) ==
  scheduleNextAction(S, c.key, c.history, c.shared, vacationModeActive, testMode, clock)

\* the timer fires; executeAction runs up to its getDevice call
TimerFire(t) ==
  /\ t \in timers
  /\ t.due <= clock
  /\ LET S == [Sched EXCEPT !.timers = timers \ {t}]
     IN IF ~vacationModeActive
          THEN /\ timers' = S.timers
               /\ UNCHANGED <<scheduledTimeouts, handlers>>
          ELSE IF ~Tracked(t.key)
            THEN /\ timers' = Rearm(S, t).timers
                 /\ scheduledTimeouts' = Rearm(S, t).scheduledTimeouts
                 /\ UNCHANGED handlers
            ELSE /\ Cardinality(handlers) < MaxHandlers
                 /\ timers' = S.timers
                 /\ handlers' = handlers \cup
                      {[ id |-> t.id, key |-> t.key, value |-> t.value,
                         event |-> t.event, history |-> t.history,
                         shared |-> t.shared, pc |-> "read" ]}
                 /\ UNCHANGED scheduledTimeouts
  /\ fires' = IF fires.kept
                THEN [fires EXCEPT !.log = @ \cup {[key |-> t.key, value |-> t.value,
                                                    at |-> clock]}]
                ELSE fires
  /\ lastOp' = NoOp
  /\ UNCHANGED <<clock, vacationModeActive, testMode, trackedDevices, deviceHistory,
                 passes, settings, liveValue, valueLog, budget, calcResult,
                 requests, sweep, starts, subscriptions>>

\* a variant of NeedsWrite that writes whatever the device reports
AlwaysWrite(currentValue, value) == TRUE

\* line 2003: the write is skipped when the device already has the value
NeedsWrite(currentValue, value) == currentValue # value

\* getDevice returns (or throws); the write is issued when the values differ
HandlerReadDone(h, ok) ==
  /\ h \in handlers
  /\ h.pc = "read"
  /\ Fault(ok)
  /\ IF ok /\ NeedsWrite(liveValue[h.key], h.value)
       THEN /\ handlers' = (handlers \ {h}) \cup {[h EXCEPT !.pc = "write"]}
            /\ lastOp' = WriteOp("replayWrite", h.key, h.value)
            /\ UNCHANGED <<timers, scheduledTimeouts>>
       ELSE /\ handlers' = handlers \ {h}
            /\ timers' = Rearm(Sched, h).timers
            /\ scheduledTimeouts' = Rearm(Sched, h).scheduledTimeouts
            /\ lastOp' = NoOp
  /\ UNCHANGED <<clock, vacationModeActive, testMode, trackedDevices, deviceHistory,
                 passes, settings, liveValue, valueLog, calcResult, fires,
                 requests, sweep, starts, subscriptions>>

\* setCapabilityValue returns (or throws); then scheduleNextAction(key, history)
HandlerWriteDone(h, ok) ==
  /\ h \in handlers
  /\ h.pc = "write"
  /\ Fault(ok)
  /\ LET k == h.key
         v == h.value
         heard == ok /\ Heard(k)
         held(closures) == IF heard THEN RecordHeld(closures, k, v) ELSE closures
         self == CHOOSE c \in held({h}) : TRUE
         S == Rearm([Sched EXCEPT !.timers = held(timers)], self)
     IN /\ handlers' = held(handlers \ {h})
        /\ timers' = S.timers
        /\ scheduledTimeouts' = S.scheduledTimeouts
        /\ deviceHistory' = IF heard THEN RecordStore(k, v) ELSE deviceHistory
        /\ settings' = IF heard THEN RecordSettings(k, v) ELSE settings
        /\ liveValue' = IF ok THEN [liveValue EXCEPT ![k] = v] ELSE liveValue
        /\ valueLog' = IF ok THEN [valueLog EXCEPT ![k] = Append(@, [t |-> clock, v |-> v])]
                       ELSE valueLog
        /\ lastOp' = IF heard THEN RecOp("replayWritten", k, v)
                     ELSE Op(IF ok THEN "replayWritten" ELSE "replayFailed", k, v)
  /\ UNCHANGED <<clock, vacationModeActive, testMode, trackedDevices, passes,
                 calcResult, fires, requests, sweep, starts, subscriptions>>

-----------------------------------------------------------------------------
(* Process restart: onInit and loadState, lines 1302-1334 and 1391-1465.    *)

\* a variant of RestartPasses that synchronises whatever the flag says
RestartAlwaysSyncs(active) == {NewPass("restart", "delay", {})}

\* lines 1440-1459: the callback that will run syncInitialStates after 2 s
RestartPasses(active) ==
  IF active THEN {NewPass("restart", "delay", {})} ELSE {}

\* a variant of loadHistories that gives up at a key without a blob
loadAllOrNothing(store) ==
  IF \A k \in store.trackedDevices : StorageKey(k) \in DOMAIN store.history
    THEN [k \in store.trackedDevices |-> parse(store.history[StorageKey(k)])]
    ELSE EmptyMap

\* lines 1408-1420: the history of every persisted key that has a blob
loadHistories(store) ==
  [k \in {x \in store.trackedDevices : StorageKey(x) \in DOMAIN store.history}
     |-> parse(store.history[StorageKey(k)])]

\* `how`: what startTrackingDevice achieves for each persisted key
Restart(how) ==
  /\ Spend
  /\ how \in [settings.trackedDevices -> {"listener", "poll", "fail"}]
  /\ LET stored == settings.trackedDevices
         loaded == loadHistories(settings)
         restored == {k \in stored : how[k] # "fail"}
         listened == {k \in stored : how[k] = "listener"}
     IN /\ trackedDevices' =
             [k \in restored |-> [mode |-> how[k], lastValue |-> liveValue[k]]]
        /\ deviceHistory' =
             [k \in DOMAIN loaded \cup listened |->
                IF k \in DOMAIN loaded THEN loaded[k] ELSE <<>>]
        /\ settings' = IF restored = {} THEN settings
                       ELSE [settings EXCEPT !.trackedDevices = restored]
  /\ vacationModeActive' = settings.vacationModeActive
  /\ testMode' = settings.testMode
  /\ scheduledTimeouts' = EmptyMap
  /\ timers' = {}
  /\ handlers' = {}
  /\ passes' = RestartPasses(settings.vacationModeActive)
  /\ lastOp' = Op("restart", "", FALSE)
  /\ requests' = {}
  /\ sweep' = NoSweep
  /\ starts' = {}
  /\ subscriptions' = Registered(trackedDevices')
  /\ UNCHANGED <<clock, liveValue, valueLog, calcResult, fires>>

-----------------------------------------------------------------------------
(* Daily cleanup, lines 2165-2183, and the clear-history endpoint.          *)

Cleanup ==
  /\ Spend
  /\ deviceHistory' = Cleaned(deviceHistory, clock)
  /\ settings' = SaveAll(settings, deviceHistory', DOMAIN deviceHistory)
  /\ timers' = Detached(timers, DOMAIN deviceHistory)
  /\ handlers' = Detached(handlers, DOMAIN deviceHistory)
  /\ lastOp' = [Op("cleanup", "", FALSE) EXCEPT !.pre = deviceHistory]
  /\ UNCHANGED <<clock, vacationModeActive, testMode, trackedDevices,
                 scheduledTimeouts, passes, liveValue, valueLog, calcResult, fires,
                 requests, sweep, starts, subscriptions>>

(* The same callback step by step: one key per iteration of the loop of    *)
(* line 2172, with the await of line 2178 between two iterations.           *)

\* a variant of SweepReads that takes the arrays the table held when the
\* callback began
SweepReadsSnapshot(map, k) ==
  IF k \in DOMAIN sweep.entries THEN sweep.entries[k] ELSE map[k]

\* line 2172: the iterator yields the array the table holds for the key now
SweepReads(map, k) == map[k]

\* line 2170: const cutoffTime = Date.now() - 8 days
CleanupBegin ==
  /\ Spend
  /\ ~sweep.running
  /\ sweep' = [running |-> TRUE, cutoffTime |-> clock - KeepDuration,
               visited |-> {}, entries |-> deviceHistory]
  /\ lastOp' = NoOp
  /\ UNCHANGED <<clock, vacationModeActive, testMode, trackedDevices, deviceHistory,
                 scheduledTimeouts, timers, handlers, passes, settings, liveValue,
                 valueLog, requests, calcResult, fires, starts, subscriptions>>

\* lines 2172-2178 for one key: filter, set, saveDeviceHistory
CleanupKey(k) ==
  /\ sweep.running
  /\ k \in DOMAIN deviceHistory \ sweep.visited
  /\ LET history == SweepReads(deviceHistory, k)
         filtered == SelectSeq(history, LAMBDA e: e.timestamp > sweep.cutoffTime)
     IN /\ deviceHistory' = MapSet(deviceHistory, k, filtered)
        /\ settings' = saveDeviceHistory(settings, deviceHistory', k)
  /\ timers' = Detached(timers, {k})
  /\ handlers' = Detached(handlers, {k})
  /\ sweep' = [sweep EXCEPT !.visited = @ \cup {k}]
  /\ lastOp' = Op("cleanupKey", k, FALSE)
  /\ UNCHANGED <<clock, vacationModeActive, testMode, trackedDevices,
                 scheduledTimeouts, passes, liveValue, valueLog, budget, requests,
                 calcResult, fires, starts, subscriptions>>

\* the iterator is exhausted: 'Cleanup completed', line 2181
CleanupEnd ==
  /\ sweep.running
  /\ DOMAIN deviceHistory \subseteq sweep.visited
  /\ sweep' = NoSweep
  /\ lastOp' = Op("cleanupDone", "", FALSE)
  /\ UNCHANGED <<clock, vacationModeActive, testMode, trackedDevices, deviceHistory,
                 scheduledTimeouts, timers, handlers, passes, settings, liveValue,
                 valueLog, budget, requests, calcResult, fires, starts, subscriptions>>

\* exports.clearHistory, api.js lines 247-265
ClearHistory(k) ==
  /\ Spend
  /\ deviceHistory' = MapDelete(deviceHistory, k)
  /\ settings' = removeDeviceHistory(settings, k)
  /\ timers' = Detached(timers, {k})
  /\ handlers' = Detached(handlers, {k})
  /\ lastOp' = [Op("clearHistory", k, FALSE) EXCEPT !.pre = deviceHistory]
  /\ UNCHANGED <<clock, vacationModeActive, testMode, trackedDevices,
                 scheduledTimeouts, passes, liveValue, valueLog, calcResult, fires,
                 requests, sweep, starts, subscriptions>>

-----------------------------------------------------------------------------
(* Seeding endpoints: generateTestData and importDeviceHistory (api.js).    *)

\* a variant of SortByTimestamp that leaves the array as it is
KeepOrder(history) == history

(* history.sort((a, b) => a.timestamp - b.timestamp), a stable sort: an      *)
(* element comes after those of smaller timestamp and after those of the     *)
(* same timestamp that stood before it                                        *)
SortByTimestamp(history) ==
  LET n == Len(history)
      before(i) == {j \in 1..n : \/ history[j].timestamp < history[i].timestamp
                                 \/ /\ history[j].timestamp = history[i].timestamp
                                    /\ j < i}
      place == [i \in 1..n |-> Cardinality(before(i)) + 1]
  IN [p \in 1..n |-> history[CHOOSE i \in 1..n : place[i] = p]]

\* switchPatterns, api.js lines 341-347
switchPatterns ==
  << [minutesOffset |-> -5, value |-> FALSE],
     [minutesOffset |-> 0,  value |-> TRUE],
     [minutesOffset |-> 2,  value |-> FALSE],
     [minutesOffset |-> 8,  value |-> TRUE],
     [minutesOffset |-> 15, value |-> FALSE] >>

\* Math.floor(Math.random() * 31), sampled
RandomSeconds == {[i \in 1..5 |-> 0], [i \in 1..5 |-> 6 * i]}

\* api.js lines 349-368: the five events, `seconds` the random draws
GeneratedEvents(now, seconds) ==
  [ i \in 1..5 |->
      LET weekAgo == now - 7 * MsPerDay
          minute == weekAgo - (weekAgo % MsPerMinute)
      IN MakeEvent(minute + switchPatterns[i].minutesOffset * MsPerMinute
                     + seconds[i] * 1000,
                   switchPatterns[i].value) ]

\* exports.generateTestData, api.js lines 327-384
GenerateTestData(k, seconds) ==
  LET history == SortByTimestamp(HistoryOf(deviceHistory, k)
                                   \o GeneratedEvents(clock, seconds))
  IN /\ Spend
     /\ seconds \in RandomSeconds
     /\ Len(HistoryOf(deviceHistory, k)) + 5 <= MaxHist
     /\ deviceHistory' = MapSet(deviceHistory, k, history)
     /\ settings' = saveDeviceHistory(settings, deviceHistory', k)
     /\ timers' = SeenInPlace(timers, k, history, FALSE)
     /\ handlers' = SeenInPlace(handlers, k, history, FALSE)
     /\ lastOp' = [Op("generateTestData", k, FALSE) EXCEPT !.pre = deviceHistory]
     /\ UNCHANGED <<clock, vacationModeActive, testMode, trackedDevices,
                    scheduledTimeouts, passes, liveValue, valueLog, calcResult, fires,
                    requests, sweep, starts, subscriptions>>

\* what Insights may return: points of the last seven days
InsightSamples ==
  { << [t |-> clock - MsPerDay, v |-> TRUE] >>,
    << [t |-> clock - MsPerHour, v |-> TRUE], [t |-> clock, v |-> TRUE] >>,
    << [t |-> clock, v |-> FALSE], [t |-> clock - MsPerDay, v |-> TRUE] >>,
    << [t |-> clock - MsPerDay, v |-> FALSE], [t |-> clock - MsPerHour, v |-> TRUE],
       [t |-> clock, v |-> FALSE] >> }

InsightLogs == {entries \in InsightSamples : Len(entries) <= MaxImport}

\* api.js lines 584-598
importedEvents(entries) ==
  SortByTimestamp([i \in 1..Len(entries) |-> MakeEvent(entries[i].t, entries[i].v)])

\* api.js lines 600-619: the merged array
Merged(old, entries) ==
  LET existingTimestamps == {old[i].timestamp : i \in 1..Len(old)}
      newEvents == SelectSeq(importedEvents(entries),
                             LAMBDA e: e.timestamp \notin existingTimestamps)
  IN SortByTimestamp(old \o newEvents)

\* exports.importDeviceHistory for a device that is no group, lines 564-641,
\* once getDeviceInsights has returned `entries`
ImportEntries(k, entries) ==
  LET merged == Merged(HistoryOf(deviceHistory, k), entries)
  IN /\ Spend
     /\ deviceHistory' = MapSet(deviceHistory, k, Cap(merged))
     /\ settings' = saveDeviceHistory(settings, deviceHistory', k)
     /\ timers' = SeenInPlace(timers, k, merged, Len(merged) > MAX_EVENTS)
     /\ handlers' = SeenInPlace(handlers, k, merged, Len(merged) > MAX_EVENTS)
     /\ lastOp' = [Op("importDeviceHistory", k, FALSE) EXCEPT !.pre = deviceHistory]
     /\ UNCHANGED <<clock, vacationModeActive, testMode, trackedDevices,
                    scheduledTimeouts, passes, liveValue, valueLog, calcResult, fires,
                    requests, sweep, starts, subscriptions>>

\* the import of a short Insights log
ImportDeviceHistory(k, entries) ==
  /\ entries \in InsightLogs
  /\ Len(HistoryOf(deviceHistory, k)) + Len(entries) <= MaxHist
  /\ ImportEntries(k, entries)

\* "max 50 entries", the comment of api.js line 564
InsightLimit == 50

(* getEntries({from: sevenDaysAgo, to: now, resolution: 'native'}), api.js   *)
(* lines 461-468: a log of n points, one a minute up to `now`, the device    *)
(* switched at each of them                                                   *)
LongLog(n, now) ==
  [ i \in 1..n |-> [t |-> now - (n - i) * MsPerMinute, v |-> i % 2 = 1] ]

\* logs of one point, of as many points as the limit, and of one more
LongLogs == { LongLog(n, clock) : n \in {1, InsightLimit, InsightLimit + 1} }

\* the import of a log of any length
ImportInsights(k, entries) ==
  /\ entries \in LongLogs
  /\ ImportEntries(k, entries)

-----------------------------------------------------------------------------
(* The replay loop on recorded histories.                                   *)

Next ==
  \/ Tick(ReplayInstants)
  \/ \E k \in Keys, how \in {"listener", "poll", "fail"} : StartTracking(k, how)
  \/ \E k \in Keys : StopTracking(k)
  \/ \E k \in Keys : DeviceChange(k)
  \/ EnableVacationMode
  \/ DisableVacationMode
  \/ ReloadSettings
  \/ \E p \in passes : PassStart(p)
  \/ \E p \in passes, k \in Keys : PassNext(p, k)
  \/ \E p \in passes, ok \in BOOLEAN : PassReadDone(p, ok)
  \/ \E p \in passes, ok \in BOOLEAN : PassWriteDone(p, ok)
  \/ \E p \in passes : PassFinish(p)
  \/ \E t \in timers : TimerFire(t)
  \/ \E h \in handlers, ok \in BOOLEAN : HandlerReadDone(h, ok)
  \/ \E h \in handlers, ok \in BOOLEAN : HandlerWriteDone(h, ok)
  \/ \E how \in [settings.trackedDevices -> {"listener", "poll", "fail"}] : Restart(how)
  \/ \E k \in Keys : ClearHistory(k)

Spec == Init /\ [][Next]_vars

(* The trigger card's promise settles and the 2 s timeout of loadState      *)
(* expires: a pending syncInitialStates call is eventually made.             *)
SpecFair == Spec /\ WF_vars(\E p \in passes : PassStart(p))

-----------------------------------------------------------------------------
(* The history store from a fresh install.                                  *)

NextStore ==
  \/ Tick(StoreInstants)
  \/ \E k \in Keys, how \in {"listener", "poll", "fail"} : StartTracking(k, how)
  \/ \E k \in Keys : StopTracking(k)
  \/ \E k \in Keys : DeviceChange(k)
  \/ \E k \in Keys : ListenerRepeat(k)
  \/ \E k \in Keys : PollTick(k)
  \/ \E how \in [settings.trackedDevices -> {"listener", "poll", "fail"}] : Restart(how)
  \/ Cleanup
  \/ \E k \in Keys : ClearHistory(k)
  \/ \E k \in SeedKeys, seconds \in RandomSeconds : GenerateTestData(k, seconds)
  \/ \E k \in SeedKeys, entries \in InsightLogs : ImportDeviceHistory(k, entries)

SpecStore == InitFresh /\ [][NextStore]_vars

-----------------------------------------------------------------------------
(* Tracking a group and its members while the recorded scenario replays.    *)

NextGroup ==
  \/ Tick(ReplayInstants)
  \/ \E k \in AllKeys : TrackDevice(k)
  \/ \E r \in requests, ok \in BOOLEAN : TrackLookupDone(r, ok)
  \/ \E r \in requests, how \in {"listener", "poll", "fail"} : TrackStartDone(r, how)
  \/ EnableVacationMode
  \/ \E p \in passes : PassStart(p)
  \/ \E p \in passes, k \in AllKeys : PassNext(p, k)
  \/ \E p \in passes, ok \in BOOLEAN : PassReadDone(p, ok)
  \/ \E p \in passes, ok \in BOOLEAN : PassWriteDone(p, ok)
  \/ \E p \in passes : PassFinish(p)
  \/ \E t \in timers : TimerFire(t)
  \/ \E h \in handlers, ok \in BOOLEAN : HandlerReadDone(h, ok)
  \/ \E h \in handlers, ok \in BOOLEAN : HandlerWriteDone(h, ok)

SpecGroup == InitDeep /\ [][NextGroup]_vars

-----------------------------------------------------------------------------
(* The replay loop with test-mode changes, up to an hour after the start.   *)

NextOverlap ==
  \/ Tick(OverlapInstants)
  \/ EnableVacationMode
  \/ ReloadSettings
  \/ \E p \in passes : PassStart(p)
  \/ \E p \in passes, k \in Keys : PassNext(p, k)
  \/ \E p \in passes, ok \in BOOLEAN : PassReadDone(p, ok)
  \/ \E p \in passes, ok \in BOOLEAN : PassWriteDone(p, ok)
  \/ \E p \in passes : PassFinish(p)
  \/ \E t \in timers : TimerFire(t)
  \/ \E h \in handlers, ok \in BOOLEAN : HandlerReadDone(h, ok)
  \/ \E h \in handlers, ok \in BOOLEAN : HandlerWriteDone(h, ok)

SpecOverlap == Init /\ [][NextOverlap]_vars

-----------------------------------------------------------------------------
(* The replay loop alone, with device calls that settle: getDevice and      *)
(* setCapabilityValue return or throw, lines 1999 and 2008.                 *)

NextLive ==
  \/ Tick(ReplayInstants)
  \/ EnableVacationMode
  \/ \E p \in passes : PassStart(p)
  \/ \E p \in passes, k \in Keys : PassNext(p, k)
  \/ \E p \in passes, ok \in BOOLEAN : PassReadDone(p, ok)
  \/ \E p \in passes, ok \in BOOLEAN : PassWriteDone(p, ok)
  \/ \E p \in passes : PassFinish(p)
  \/ \E t \in timers : TimerFire(t)
  \/ \E h \in handlers, ok \in BOOLEAN : HandlerReadDone(h, ok)
  \/ \E h \in handlers, ok \in BOOLEAN : HandlerWriteDone(h, ok)

SpecLive ==
  /\ Init /\ [][NextLive]_vars
  /\ WF_vars(\E h \in handlers, ok \in BOOLEAN : HandlerReadDone(h, ok))
  /\ WF_vars(\E h \in handlers, ok \in BOOLEAN : HandlerWriteDone(h, ok))

-----------------------------------------------------------------------------
(* Restarts of the process while the recorded scenario replays.             *)

NextRestart ==
  \/ Tick(ReplayInstants)
  \/ EnableVacationMode
  \/ \E k \in Keys : ClearHistory(k)
  \/ \E how \in [settings.trackedDevices -> {"listener", "poll", "fail"}] : Restart(how)
  \/ \E p \in passes : PassStart(p)
  \/ \E p \in passes, k \in Keys : PassNext(p, k)
  \/ \E p \in passes, ok \in BOOLEAN : PassReadDone(p, ok)
  \/ \E p \in passes, ok \in BOOLEAN : PassWriteDone(p, ok)
  \/ \E p \in passes : PassFinish(p)
  \/ \E t \in timers : TimerFire(t)
  \/ \E h \in handlers, ok \in BOOLEAN : HandlerReadDone(h, ok)
  \/ \E h \in handlers, ok \in BOOLEAN : HandlerWriteDone(h, ok)

SpecRestart == InitDeep /\ [][NextRestart]_vars

-----------------------------------------------------------------------------
(* The replay loop and the daily cleanup once the recorded events are old.  *)

NextSweep ==
  \/ Tick(SweepInstants)
  \/ EnableVacationMode
  \/ ReloadSettings
  \/ Cleanup
  \/ \E p \in passes : PassStart(p)
  \/ \E p \in passes, k \in Keys : PassNext(p, k)
  \/ \E p \in passes, ok \in BOOLEAN : PassReadDone(p, ok)
  \/ \E p \in passes, ok \in BOOLEAN : PassWriteDone(p, ok)
  \/ \E p \in passes : PassFinish(p)
  \/ \E t \in timers : TimerFire(t)
  \/ \E h \in handlers, ok \in BOOLEAN : HandlerReadDone(h, ok)
  \/ \E h \in handlers, ok \in BOOLEAN : HandlerWriteDone(h, ok)

SpecSweep == InitSweep /\ [][NextSweep]_vars

-----------------------------------------------------------------------------
(* The daily cleanup key by key, while residents switch the devices.        *)

\* the evening after the recorded one, when some of the recorded events are
\* more than 8 days old and others are not
DailyStart == At(9, 19, 10, 0)
DailyInstants == {DailyStart, At(9, 19, 20, 0)}

InitDaily == Recorded(DailyStart, MaxDeepCommands)

NextDaily ==
  \/ Tick(DailyInstants)
  \/ \E k \in Keys : DeviceChange(k)
  \/ \E k \in Keys : ListenerRepeat(k)
  \/ CleanupBegin
  \/ \E k \in Keys : CleanupKey(k)
  \/ CleanupEnd

SpecDaily == InitDaily /\ [][NextDaily]_vars

-----------------------------------------------------------------------------
(* Calls of startTrackingDevice that overlap, from a fresh install.         *)

InitRace ==
  /\ clock = At(8, 19, 0, 0)
  /\ vacationModeActive = FALSE
  /\ testMode = FALSE
  /\ trackedDevices = EmptyMap
  /\ deviceHistory = EmptyMap
  /\ scheduledTimeouts = EmptyMap
  /\ timers = {}
  /\ handlers = {}
  /\ passes = {}
  /\ settings = NoSettings
  /\ liveValue = [k \in Keys |-> FALSE]
  /\ valueLog = [k \in Keys |-> <<[t |-> 0, v |-> FALSE]>>]
  /\ lastOp = NoOp
  /\ budget = MaxRaceCommands
  /\ requests = {}
  /\ sweep = NoSweep
  /\ starts = {}
  /\ subscriptions = {}
  /\ calcResult = NoCalc
  /\ fires = NoFires

NextRace ==
  \/ \E k \in Keys : StartCall(k)
  \/ \E s \in starts, ok \in BOOLEAN : StartDeviceDone(s, ok)
  \/ \E s \in starts, ok \in BOOLEAN : StartRegisterDone(s, ok)
  \/ \E k \in Keys : StopTracking(k)
  \/ \E k \in Keys : DeviceChange(k)
  \/ \E k \in Keys : PollTick(k)

SpecRace == InitRace /\ [][NextRace]_vars

-----------------------------------------------------------------------------
(* Imports from Insights logs of any length, from a fresh install.          *)

NextImport ==
  \/ Tick(StoreInstants)
  \/ \E k \in SeedKeys, entries \in LongLogs : ImportInsights(k, entries)

SpecImport == InitFresh /\ [][NextImport]_vars

-----------------------------------------------------------------------------
(* calculateNextEvent on its own: histories, modes and current times.       *)

MaxCalcLen == 2        \* events per history handed to calculateNextEvent

\* recorded events: two of the same Monday evening, one in the minute of a
\* sampled current time, one on another day, one in the last minute of the
\* week, and two within one minute
CalcEvents ==
  { MakeEvent(At(8, 19, 30, 0), TRUE),
    MakeEvent(At(8, 19, 30, 40), FALSE),
    MakeEvent(At(8, 23, 15, 0), FALSE),
    MakeEvent(At(8, 19, 0, 20), TRUE),
    MakeEvent(At(9, 8, 0, 0), FALSE),
    MakeEvent(At(14, 23, 59, 0), TRUE) }

\* the current times, one week after the recorded Monday and around it
CalcNows ==
  { At(15, 19, 0, 0), At(15, 23, 20, 0), At(14, 23, 59, 30), At(16, 8, 0, 0) }

\* histories as the store keeps them: in timestamp order
CalcHistories ==
  { h \in UNION {[1..n -> CalcEvents] : n \in 0..MaxCalcLen} :
      \A i \in 1..(Len(h) - 1) : h[i].timestamp < h[i + 1].timestamp }

InitCalc ==
  /\ clock \in CalcNows
  /\ vacationModeActive = FALSE
  /\ testMode \in BOOLEAN
  /\ trackedDevices = EmptyMap
  /\ \E h \in CalcHistories : deviceHistory = [k \in {K1} |-> h]
  /\ scheduledTimeouts = EmptyMap
  /\ timers = {}
  /\ handlers = {}
  /\ passes = {}
  /\ settings = NoSettings
  /\ liveValue = [k \in Keys |-> FALSE]
  /\ valueLog = [k \in Keys |-> <<[t |-> 0, v |-> FALSE]>>]
  /\ lastOp = NoOp
  /\ budget = 0
  /\ requests = {}
  /\ sweep = NoSweep
  /\ starts = {}
  /\ subscriptions = Registered(trackedDevices)
  /\ calcResult = NoCalc
  /\ fires = NoFires

\* this.calculateNextEvent(history, this.testMode), line 1881
Calculate ==
  /\ ~calcResult.done
  /\ calcResult' = [done   |-> TRUE,
                    result |-> calculateNextEvent(deviceHistory[K1], testMode, clock)]
  /\ UNCHANGED <<clock, vacationModeActive, testMode, trackedDevices, deviceHistory,
                 scheduledTimeouts, timers, handlers, passes, settings, liveValue,
                 valueLog, lastOp, budget, fires, requests, sweep, starts, subscriptions>>

NextCalc == Calculate

SpecCalc == InitCalc /\ [][NextCalc]_vars

-----------------------------------------------------------------------------
(* The scan of syncInitialStates on its own, on the same histories.         *)

\* lines 2020-2058 for one key: targetTime and the scan of its history
Select ==
  /\ ~calcResult.done
  /\ calcResult' = [done   |-> TRUE,
                    result |-> lastEventBeforeTarget(deviceHistory[K1],
                                                     clock - SyncPeriodMs(testMode))]
  /\ UNCHANGED <<clock, vacationModeActive, testMode, trackedDevices, deviceHistory,
                 scheduledTimeouts, timers, handlers, passes, settings, liveValue,
                 valueLog, lastOp, budget, fires, requests, sweep, starts, subscriptions>>

NextScan == Select

SpecScan == InitCalc /\ [][NextScan]_vars

-----------------------------------------------------------------------------
(* Claims on calculateNextEvent.                                            *)

\* C2: whenever calculateNextEvent returns a result, its delay d in minutes
\* satisfies 0 < d <= period, with period 10080 in normal mode and 60 in test
\* mode; on the empty history it returns nothing.
C2_DelayWithinPeriod ==
  calcResult.done =>
    /\ calcResult.result.found =>
         /\ 0 < calcResult.result.minDelay
         /\ calcResult.result.minDelay <= (IF testMode THEN 60 ELSE 10080)
    /\ deviceHistory[K1] = <<>> => ~calcResult.result.found

\* a normal-mode result that is a whole week away
C2_Witness ==
  /\ calcResult.done
  /\ calcResult.result.found
  /\ ~testMode
  /\ calcResult.result.minDelay = 10080

\* position of a moment on the ring, in minutes
RingPosition(day, minutes, minute, mode) ==
  IF mode THEN minute ELSE day * 1440 + minutes

\* forward circular distance on a ring of `period` minutes, a full period when
\* both positions coincide
RingDistance(from, to, period) == ((to - from - 1 + period) % period) + 1

EventDistance(e, mode, now) ==
  RingDistance(RingPosition(getDay(now), getHours(now) * 60 + getMinutes(now),
                            getMinutes(now), mode),
               RingPosition(e.dayOfWeek, e.timeMinutes, e.minuteOfHour, mode),
               IF mode THEN 60 ELSE 10080)

MinimalDistance ==
  LET h == deviceHistory[K1]
  IN calcResult.done /\ h # <<>> =>
       /\ calcResult.result.found
       /\ \E i \in 1..Len(h) :
            /\ calcResult.result.nextEvent = h[i]
            /\ calcResult.result.minDelay = EventDistance(h[i], testMode, clock)
       /\ \A i \in 1..Len(h) :
            calcResult.result.minDelay <= EventDistance(h[i], testMode, clock)

\* the history [(Mon 19:30, true), (Mon 23:15, false)]
ScenarioHistory ==
  << MakeEvent(At(8, 19, 30, 0), TRUE), MakeEvent(At(8, 23, 15, 0), FALSE) >>

\* calculateNextEvent on the scenario history at `now` in normal mode gives
\* (value, delay)
ScenarioGives(now, value, delay) ==
  calcResult.done /\ ~testMode /\ deviceHistory[K1] = ScenarioHistory /\ clock = now =>
    /\ calcResult.result.found
    /\ calcResult.result.nextEvent.value = value
    /\ calcResult.result.minDelay = delay

\* C3, as the code has it: for every non-empty history and current time the
\* delay returned is the minimum over the events of the forward circular
\* distance on the ring, an event at the current position being a full period
\* away; the history [(Mon 19:30, true), (Mon 23:15, false)] gives (true, 30)
\* at Mon 19:00 and (true, 9850) at Mon 23:20.
C3_MinimalRingDistance ==
  /\ MinimalDistance
  /\ ScenarioGives(At(15, 19, 0, 0), TRUE, 30)
  /\ ScenarioGives(At(15, 23, 20, 0), TRUE, 9850)

\* the scenario history has been evaluated at Mon 23:20
C3_Witness ==
  /\ calcResult.done
  /\ ~testMode
  /\ deviceHistory[K1] = ScenarioHistory
  /\ clock = At(15, 23, 20, 0)
  /\ calcResult.result.found

\* C3 as stated: the same, with (true, 10065) at Mon 23:20
C3_AsStated ==
  /\ MinimalDistance
  /\ ScenarioGives(At(15, 19, 0, 0), TRUE, 30)
  /\ ScenarioGives(At(15, 23, 20, 0), TRUE, 10065)

-----------------------------------------------------------------------------
(* Claims on the history store.                                             *)

\* entries of a history younger than 8 days at time `now`
Younger(history, now) ==
  {i \in 1..Len(history) : history[i].timestamp > now - 8 * 24 * 60 * MsPerMinute}

\* recordDeviceEvent(key, v) on a history whose last event has value v leaves
\* the history and the persisted histories as they were
DuplicateChangesNothing ==
  lastOp.rec /\ ~lastOp.accepted =>
    /\ deviceHistory = lastOp.pre
    /\ settings.history = lastOp.stored

C8_NoConsecutiveDuplicates ==
  \A k \in DOMAIN deviceHistory :
    \A i \in 1..(Len(deviceHistory[k]) - 1) :
      deviceHistory[k][i].value # deviceHistory[k][i + 1].value

\* an import or a generation has left a history of several entries
C8_Witness ==
  /\ lastOp.op \in {"importDeviceHistory", "generateTestData"}
  /\ Len(HistoryOf(deviceHistory, lastOp.key)) >= 2

\* the trim of `before` at the present time: nothing older than 8 days is in
\* `after`, and every younger entry of `before` is
Retained(before, after) ==
  /\ \A j \in 1..Len(after) :
       after[j].timestamp >= clock - 8 * 24 * 60 * MsPerMinute
  /\ \A i \in Younger(before, clock) :
       \E j \in 1..Len(after) : after[j] = before[i]

\* C9: right after an accepted recordDeviceEvent on a key, and right after a
\* cleanup sweep, no retained event of the affected histories is older than 8
\* days, and no younger event has been removed.
C9_Retention ==
  /\ lastOp.rec /\ lastOp.accepted =>
       Retained(HistoryOf(lastOp.pre, lastOp.key),
                HistoryOf(deviceHistory, lastOp.key))
  /\ lastOp.op = "cleanup" =>
       \A k \in DOMAIN lastOp.pre :
         Retained(lastOp.pre[k], HistoryOf(deviceHistory, k))

\* a sweep that removed an event of a history and kept a younger one
C9_Witness ==
  /\ lastOp.op = "cleanup"
  /\ \E k \in DOMAIN lastOp.pre :
       /\ Len(HistoryOf(deviceHistory, k)) > 0
       /\ Len(HistoryOf(deviceHistory, k)) < Len(lastOp.pre[k])

\* C10: in every reachable state every key's history is in non-decreasing
\* timestamp order.
C10_Sorted ==
  \A k \in DOMAIN deviceHistory :
    \A i \in 1..(Len(deviceHistory[k]) - 1) :
      deviceHistory[k][i].timestamp <= deviceHistory[k][i + 1].timestamp

\* an import has placed an event before one the history already had
C10_Witness ==
  /\ lastOp.op = "importDeviceHistory"
  /\ LET before == HistoryOf(lastOp.pre, lastOp.key)
         after == HistoryOf(deviceHistory, lastOp.key)
     IN \E i \in 1..Len(after), j \in 1..Len(before) :
          /\ \A n \in 1..Len(before) : before[n] # after[i]
          /\ after[i].timestamp < before[j].timestamp

-----------------------------------------------------------------------------
(* Claims on the replay loop.                                               *)

\* C1: in every reachable state there is at most one outstanding schedule
\* timer per tracking key, and every outstanding timer is the one stored in
\* scheduledTimeouts for its key.
C1_OneTimerPerKey ==
  /\ \A k \in Keys : Cardinality({t \in timers : t.key = k}) <= 1
  /\ \A t \in timers :
       /\ t.key \in DOMAIN scheduledTimeouts
       /\ scheduledTimeouts[t.key] = t.id

\* a timer was armed for a key while the callback of its previous timer is
\* still suspended in executeAction
C1_Witness ==
  \E h \in handlers, t \in timers : t.key = h.key /\ t.id # h.id

\* C4: setCapabilityValue is issued only while vacationModeActive is true.
C4_WritesOnlyWhileEnabled == lastOp.wrote => lastOp.active

\* a write issued while the simulation is enabled
C4_Witness == lastOp.wrote /\ lastOp.active

\* the value a device had at time t, from the log of its changes
ValueAt(log, t) ==
  LET last == CHOOSE i \in 1..Len(log) :
                /\ log[i].t <= t
                /\ \A j \in 1..Len(log) : log[j].t <= t => j <= i
  IN log[last].v

\* C5: when enableVacationMode completes in normal mode, every tracked device
\* has the value it had exactly 7 days earlier (no device call failed, and
\* nothing else happened since the mode was switched on).
C5_LiveValueOfLastWeek ==
  /\ lastOp.op = "enabled"
  /\ lastOp.clean
  /\ ~testMode
  /\ vacationModeActive
  /\ clock = lastOp.target + 7 * MsPerDay
  => \A k \in DOMAIN trackedDevices :
       liveValue[k] = ValueAt(valueLog[k], clock - 7 * MsPerDay)

\* enableVacationMode completed after writing a device's value of last week
C5_Witness ==
  /\ lastOp.op = "enabled"
  /\ lastOp.clean
  /\ ~testMode
  /\ clock = lastOp.target + 7 * MsPerDay
  /\ \E k \in DOMAIN trackedDevices :
       /\ k \in DOMAIN lastOp.outcome
       /\ lastOp.outcome[k] = "synced"
       /\ liveValue[k] = ValueAt(valueLog[k], clock - 7 * MsPerDay)

-----------------------------------------------------------------------------
(* One undisturbed cycle of replay: the simulation is switched on at         *)
(* ReplayStart in either mode, every device call succeeds before the clock   *)
(* moves, every timer fires at its due time, nobody touches the devices; a   *)
(* listener hears the replay's own writes, a poll loop is not yet due.       *)

\* one period after the simulation was switched on, and a minute more
ReplayEnd(mode) == ReplayStart + Period(mode) * MsPerMinute + MsPerMinute

InitReplay ==
  /\ clock = ReplayStart
  /\ vacationModeActive = FALSE
  /\ testMode \in BOOLEAN
  /\ \E how \in [Keys -> {"listener", "poll"}] :
       trackedDevices = [k \in Keys |-> [mode |-> how[k], lastValue |-> FALSE]]
  /\ deviceHistory = RecordedHistory
  /\ scheduledTimeouts = EmptyMap
  /\ timers = {}
  /\ handlers = {}
  /\ passes = {}
  /\ settings = SaveAll([NoSettings EXCEPT !.testMode = testMode,
                                           !.trackedDevices = Keys],
                        RecordedHistory, Keys)
  /\ liveValue = [k \in Keys |-> FALSE]
  /\ valueLog = [k \in Keys |-> <<[t |-> 0, v |-> FALSE]>> \o RecordedChanges[k]]
  /\ lastOp = NoOp
  /\ budget = 1
  /\ requests = {}
  /\ sweep = NoSweep
  /\ starts = {}
  /\ subscriptions = Registered(trackedDevices)
  /\ calcResult = NoCalc
  /\ fires = [kept |-> TRUE, log |-> {}]

\* time passes up to the next due time, once everything due has run
TickPunctual ==
  /\ vacationModeActive
  /\ passes = {}
  /\ handlers = {}
  /\ \A t \in timers : t.due > clock
  /\ clock < ReplayEnd(testMode)
  /\ clock' = Min({ReplayEnd(testMode)}
                    \cup {t.due : t \in {x \in timers : x.due < ReplayEnd(testMode)}})
  /\ lastOp' = NoOp
  /\ UNCHANGED <<vacationModeActive, testMode, trackedDevices, deviceHistory,
                 scheduledTimeouts, timers, handlers, passes, settings, liveValue,
                 valueLog, budget, calcResult, fires, requests, sweep, starts, subscriptions>>

NextReplay ==
  \/ EnableVacationMode
  \/ \E p \in passes : PassStart(p)
  \/ \E p \in passes, k \in Keys : PassNext(p, k)
  \/ \E p \in passes : PassReadDone(p, TRUE)
  \/ \E p \in passes : PassWriteDone(p, TRUE)
  \/ \E p \in passes : PassFinish(p)
  \/ TickPunctual
  \/ \E t \in timers : TimerFire(t)
  \/ \E h \in handlers : HandlerReadDone(h, TRUE)
  \/ \E h \in handlers : HandlerWriteDone(h, TRUE)

SpecReplay == InitReplay /\ [][NextReplay]_vars

\* the moment t is at event e's position of the cycle
AtPosition(t, e, mode) ==
  IF mode THEN getMinutes(t) = e.minuteOfHour
  ELSE /\ getDay(t) = e.dayOfWeek
       /\ getHours(t) * 60 + getMinutes(t) = e.timeMinutes

\* a timer callback ran for key k with e's value at e's position
Replayed(k, e) ==
  \E f \in fires.log :
    /\ f.key = k
    /\ f.value = e.value
    /\ AtPosition(f.at, e, testMode)

\* C6: the simulation having stayed on for one period, the keys tracked and
\* nothing but the replay itself touching the histories, every recorded event
\* of every key has been replayed: a timer callback ran with its value at its
\* position of the cycle, also when two events fall in the same minute.
C6_EveryEventReplayed ==
  /\ clock = ReplayEnd(testMode)
  /\ vacationModeActive
  => \A k \in Keys : \A i \in 1..Len(RecordedHistory[k]) :
       Replayed(k, RecordedHistory[k][i])

\* a cycle is over in which both events of a key were replayed
C6_Witness ==
  /\ clock = ReplayEnd(testMode)
  /\ vacationModeActive
  /\ \E k \in Keys : \A i \in 1..Len(RecordedHistory[k]) :
       Replayed(k, RecordedHistory[k][i])

-----------------------------------------------------------------------------
(* Persistence round trip.                                                  *)

\* the histories loadState must find: those last saved and not removed since
Reloaded(stored, map, k) ==
  IF k \in stored /\ k \in DOMAIN settings.written
    THEN k \in DOMAIN map /\ map[k] = settings.written[k]
    ELSE HistoryOf(map, k) = <<>>

-----------------------------------------------------------------------------
(* Timers and the tracked set.                                              *)

(* C12: a key that is not in trackedDevices has no armed timer and no entry *)
(* in scheduledTimeouts.                                                     *)
C12_NoTimerForUntrackedKey ==
  /\ \A t \in timers : Tracked(t.key)
  /\ \A k \in DOMAIN scheduledTimeouts : Tracked(k)

\* stopTrackingDevice has cancelled a key's timer while the other key's stays
C12_Witness ==
  /\ vacationModeActive
  /\ passes = {} /\ handlers = {}
  /\ \E k \in Keys :
       /\ ~Tracked(k)
       /\ HistoryOf(deviceHistory, k) # <<>>
       /\ k \notin DOMAIN scheduledTimeouts
       /\ \A t \in timers : t.key # k
       /\ \E t \in timers : Tracked(t.key)

-----------------------------------------------------------------------------
(* Timers and the replay flag.                                              *)

(* C13: while vacationModeActive is false (after disableVacationMode, or    *)
(* after a restart with the flag persisted false) no timer is armed and      *)
(* scheduledTimeouts is empty, whatever callbacks were in flight.            *)
C13_NoTimerWhileDisabled ==
  ~vacationModeActive => timers = {} /\ scheduledTimeouts = EmptyMap

\* an enableVacationMode that was in flight finished after the disable
C13_Witness ==
  /\ ~vacationModeActive
  /\ lastOp.op = "enabled"
  /\ \E k \in Keys : Tracked(k) /\ HistoryOf(deviceHistory, k) # <<>>
  /\ timers = {}

-----------------------------------------------------------------------------
(* The schedule a completed enableVacationMode leaves behind.               *)

\* the one timer of key k is armed for what calculateNextEvent gives now
ArmedForNext(k) ==
  LET result == calculateNextEvent(deviceHistory[k], testMode, clock)
  IN /\ Cardinality({t \in timers : t.key = k}) = 1
     /\ \A t \in timers :
          t.key = k => /\ result.found
                       /\ t.event = result.nextEvent
                       /\ t.value = result.nextEvent.value
                       /\ t.due = clock + result.minDelay * 60 * 1000
                       /\ scheduledTimeouts[k] = t.id

(* C14: when enableVacationMode returns with the flag still set, every      *)
(* tracked key with a non-empty history has exactly one armed timer, for the *)
(* event and the delay that calculateNextEvent returns for its history.      *)
C14_ScheduleAfterEnable ==
  (lastOp.op = "enabled" /\ vacationModeActive) =>
     \A k \in Keys :
        (Tracked(k) /\ HistoryOf(deviceHistory, k) # <<>>) => ArmedForNext(k)

\* enableVacationMode returned and armed a timer for each of two tracked keys
C14_Witness ==
  /\ lastOp.op = "enabled"
  /\ vacationModeActive
  /\ \A k \in Keys : Tracked(k) /\ HistoryOf(deviceHistory, k) # <<>>
  /\ Cardinality(timers) = 2

-----------------------------------------------------------------------------
(* When syncInitialStates runs.                                             *)

\* the callers that have not reached their call of syncInitialStates yet
Pending(running) == {p.id : p \in {q \in running : q.pc \in {"trigger", "delay"}}}

\* the callers suspended in or around syncInitialStates
Callers(running) == {p.id : p \in running}

\* the step is a process restart
IsRestart == lastOp'.op = "restart"

\* the step is an enableVacationMode that found the flag clear
IsEnable == ~vacationModeActive /\ vacationModeActive' /\ ~IsRestart

\* what a step may do to the calls of syncInitialStates
SyncCalls ==
  /\ IsEnable =>
       /\ \E n \in Callers(passes') \ Callers(passes) :
            /\ Callers(passes') = Callers(passes) \cup {n}
            /\ Pending(passes') = Pending(passes) \cup {n}
       /\ timers' = timers
  /\ IsRestart =>
       /\ Cardinality(passes') = IF settings.vacationModeActive THEN 1 ELSE 0
       /\ Pending(passes') = Callers(passes')
       /\ timers' = {}
  /\ (~IsEnable /\ ~IsRestart) =>
       /\ Callers(passes') \subseteq Callers(passes)
       /\ Pending(passes') \subseteq Pending(passes)
       /\ \A p \in passes :
            p.id \notin Callers(passes') =>
               /\ p.pc = "scan"
               /\ DOMAIN deviceHistory \subseteq DOMAIN p.outcome
               /\ lastOp'.op \in {"enabled", "restarted"}
       /\ lastOp'.op \in {"enabled", "restarted"} =>
            Cardinality(passes') = Cardinality(passes) - 1

(* C15: syncInitialStates is called once for every enableVacationMode that  *)
(* finds the flag clear, before that call arms a timer, and once after a     *)
(* restart that finds the flag persisted as set; an enableVacationMode that  *)
(* finds the flag set, a restart that finds it clear and every other step    *)
(* call it never; and a pending call is eventually made.                     *)
C15_SyncOncePerEnable ==
  /\ [][SyncCalls]_vars
  /\ (Pending(passes) # {}) ~> (Pending(passes) = {})

\* enableVacationMode was called with the flag set and started no second sync
C15_Witness ==
  /\ lastOp.op = "alreadyEnabled"
  /\ \E p \in passes : p.kind = "enable" /\ p.pc = "scan"
  /\ Cardinality(passes) = 1

-----------------------------------------------------------------------------
(* What syncInitialStates writes.                                           *)

\* the positions of the events recorded at or before targetTime
AtOrBefore(history, targetTime) ==
  {i \in 1..Len(history) : history[i].timestamp <= targetTime}

\* the value of the last of them
SelectedValue(history, targetTime) ==
  history[CHOOSE i \in AtOrBefore(history, targetTime) :
            \A j \in AtOrBefore(history, targetTime) : j <= i].value

\* the setCapabilityValue calls a caller of syncInitialStates issued for k
WritesFor(p, k) == SelectSeq(p.writes, LAMBDA w: w.key = k)

\* the status logged for key k agrees with what was selected, read and written
SyncedAsSelected(p, k) ==
  LET status == p.outcome[k]
      selected == AtOrBefore(p.scanned[k], p.targetTime) # {}
      value == SelectedValue(p.scanned[k], p.targetTime)
  IN /\ status \in {"synced", "already_correct", "no_historical_state", "error"}
     /\ status = "synced" =>
          /\ selected /\ p.read[k] # value
          /\ WritesFor(p, k) = <<[key |-> k, value |-> value]>>
     /\ status = "already_correct" =>
          /\ selected /\ p.read[k] = value
          /\ WritesFor(p, k) = <<>>
     /\ status = "no_historical_state" =>
          /\ ~selected
          /\ WritesFor(p, k) = <<>>
     /\ status = "error" =>
          /\ selected
          /\ Len(WritesFor(p, k)) <= 1
          /\ WritesFor(p, k) # <<>> =>
               p.read[k] # value /\ WritesFor(p, k)[1].value = value

\* normal mode, Monday 20:00, one event {Monday 19:30 a week before, true}
ScenarioD ==
  LET history == <<MakeEvent(At(1, 19, 30, 0), TRUE)>>
      match == lastEventBeforeTarget(history, At(8, 20, 0, 0) - SyncPeriodMs(FALSE))
  IN match.found /\ match.event = history[1]

(* C16: in a run of syncInitialStates, every tracked key with a non-empty   *)
(* history gets one setCapabilityValue call, with the value of its last      *)
(* event at or before targetTime, when that event exists and the value read  *)
(* from the device differs (status synced); no call when the values agree    *)
(* (already_correct) or no such event exists (no_historical_state).  A key   *)
(* whose device call failed is logged as error.                              *)
C16_OneCorrectiveWrite ==
  /\ ScenarioD
  /\ \A p \in passes :
       /\ \A k \in DOMAIN p.scanned :
            /\ p.scanned[k] # <<>>
            /\ k \in DOMAIN p.outcome => SyncedAsSelected(p, k)
       /\ \A k \in DOMAIN p.outcome :
            k \notin DOMAIN p.scanned =>
               p.outcome[k] \in {"skipped", "no_history"} /\ WritesFor(p, k) = <<>>

\* one run found nothing to restore for d1 and switched d2 on
C16_Witness ==
  \E p \in passes :
    /\ p.pc = "scan"
    /\ DOMAIN p.outcome = Keys
    /\ p.outcome[K1] = "no_historical_state"
    /\ p.outcome[K2] = "synced"
    /\ p.writes = <<[key |-> K2, value |-> TRUE]>>

-----------------------------------------------------------------------------
(* Starting and stopping the tracking of a key.                             *)

-----------------------------------------------------------------------------
(* What becomes of a key's history.                                         *)

\* the persisted history blob of key k, or none
Blob(store, k) ==
  IF StorageKey(k) \in DOMAIN store.history
    THEN <<store.history[StorageKey(k)]>> ELSE <<>>

C20_ClearHistoryFrame ==
  [][ lastOp'.op = "clearHistory" =>
        /\ lastOp'.key \notin DOMAIN deviceHistory'
        /\ Blob(settings', lastOp'.key) = <<>>
        /\ \A k \in Keys \ {lastOp'.key} :
             /\ (k \in DOMAIN deviceHistory') = (k \in DOMAIN deviceHistory)
             /\ HistoryOf(deviceHistory', k) = HistoryOf(deviceHistory, k)
             /\ Blob(settings', k) = Blob(settings, k)
        /\ trackedDevices' = trackedDevices
        /\ settings'.trackedDevices = settings.trackedDevices
        /\ vacationModeActive' = vacationModeActive
        /\ settings'.vacationModeActive = settings.vacationModeActive ]_vars

\* a tracked key's history was cleared while the simulation is on and the
\* other key keeps its events
C20_Witness ==
  /\ lastOp.op = "clearHistory"
  /\ HistoryOf(lastOp.pre, lastOp.key) # <<>>
  /\ Tracked(lastOp.key)
  /\ vacationModeActive
  /\ \E k \in Keys \ {lastOp.key} :
       HistoryOf(deviceHistory, k) # <<>> /\ Blob(settings, k) # <<>>

-----------------------------------------------------------------------------
(* Claims on the import from Insights.                                      *)

\* C21: right after importDeviceHistory on a key, the key's history has no
\* two consecutive entries of equal value, holds no entry older than 8 days
\* at that time, and has at most 10,000 entries, as a history written by
\* recordDeviceEvent has.
C21_ImportSameRulesAsRecording ==
  lastOp.op = "importDeviceHistory" =>
    LET history == HistoryOf(deviceHistory, lastOp.key)
    IN /\ \A i \in 1..(Len(history) - 1) : history[i].value # history[i + 1].value
       /\ \A i \in 1..Len(history) : history[i].timestamp > clock - KeepDuration
       /\ Len(history) <= MAX_EVENTS

\* an import into a history that live recording had written
C21_Witness ==
  /\ lastOp.op = "importDeviceHistory"
  /\ HistoryOf(lastOp.pre, lastOp.key) # <<>>
  /\ Len(HistoryOf(deviceHistory, lastOp.key)) > Len(HistoryOf(lastOp.pre, lastOp.key))

\* C22: one importDeviceHistory call adds at most 50 events to the key's
\* history, however many entries Insights returns.
C22_AtMostFiftyAdded ==
  lastOp.op = "importDeviceHistory" =>
    Len(HistoryOf(deviceHistory, lastOp.key))
      <= Len(HistoryOf(lastOp.pre, lastOp.key)) + InsightLimit

\* an import of a log of more than 50 entries has run
C22_Witness ==
  /\ lastOp.op = "importDeviceHistory"
  /\ Len(HistoryOf(deviceHistory, lastOp.key)) > InsightLimit

-----------------------------------------------------------------------------
(* Claims on tracking a group and on devices that become tracked.           *)

\* the tracking keys of the devices that are members of the group of `key`
MemberKeys(key) ==
  {k \in AllKeys : parseTrackingKey(k).deviceId \in deviceIds[parseTrackingKey(key).deviceId]}

\* C23: when trackDevice has returned success for the key of a group, the
\* group key is tracked, no key of a member device is tracked, and every key
\* reported in removedDevices is a member's key that has no timer.
C23_GroupReplacesMembers ==
  lastOp.op = "trackDevice" /\ isDeviceGroup(parseTrackingKey(lastOp.key).deviceId) =>
    /\ Tracked(lastOp.key)
    /\ \A k \in MemberKeys(lastOp.key) : ~Tracked(k)
    /\ lastOp.removed \subseteq MemberKeys(lastOp.key)
    /\ \A k \in lastOp.removed : \A t \in timers : t.key # k

\* trackDevice of the group has returned while the simulation is on, and it
\* reports both members as removed
C23_Witness ==
  /\ lastOp.op = "trackDevice"
  /\ lastOp.key = KG
  /\ lastOp.removed = Keys
  /\ vacationModeActive

\* C26: when trackDevice has returned success for a key while the simulation
\* is on, no activation is under way and the key's history is not empty, a
\* timer is armed for the key or one of its timer callbacks is running.
C26_TimerOnceTracked ==
  /\ lastOp.op = "trackDevice"
  /\ vacationModeActive
  /\ passes = {}
  /\ HistoryOf(deviceHistory, lastOp.key) # <<>>
  => \/ \E t \in timers : t.key = lastOp.key
     \/ \E h \in handlers : h.key = lastOp.key

\* a key with recorded events has become tracked while the simulation is on
C26_Witness ==
  /\ lastOp.op = "trackDevice"
  /\ vacationModeActive
  /\ passes = {}
  /\ Tracked(lastOp.key)
  /\ Len(HistoryOf(deviceHistory, lastOp.key)) >= 2

-----------------------------------------------------------------------------
(* Claims on the timer callback.                                            *)

\* the timer callback `h` ends in this step: executeAction is over and
\* scheduleNextAction has run
Ends(h) ==
  /\ h \in handlers
  /\ \A x \in handlers' : x.id # h.id
  /\ lastOp'.op # "restart"

\* after the step, the key's timer is the one scheduleNextAction arms for
\* `history`, and no timer was armed for the key when `history` is empty
ArmedFrom(k, history) ==
  IF history = <<>>
    THEN {t \in timers' : t.key = k} \subseteq timers
    ELSE LET result == calculateNextEvent(history, testMode, clock)
         IN \E t \in timers' :
              /\ t.key = k
              /\ t.event = result.nextEvent
              /\ t.due = clock + result.minDelay * 60 * 1000

\* C24: when a timer callback ends while the simulation is on, the timer it
\* arms is computed from the history that deviceHistory holds for the key at
\* that moment, whatever was recorded, trimmed or cleared since the fired
\* timer was armed.
C24_RearmFromCurrentHistory ==
  [][ \A h \in handlers :
        Ends(h) /\ vacationModeActive =>
          ArmedFrom(h.key, HistoryOf(deviceHistory', h.key)) ]_vars

\* a callback has written to the device and re-armed, and the array it armed
\* from is not what deviceHistory holds for the key
C24_Witness ==
  /\ lastOp.op \in {"replayWritten", "replayFailed"}
  /\ vacationModeActive
  /\ \E t \in timers :
       /\ t.key = lastOp.key
       /\ t.history # HistoryOf(deviceHistory, t.key)

\* C25: when reloadSettings calls scheduleNextAction for the keys of
\* deviceHistory while the simulation is on, no timer that a key had before
\* the call is left afterwards, whether the key's history is empty or not:
\* the key has the newly armed timer or none.
C25_CancelBeforeArm ==
  [][ lastOp'.op = "reloadSettings" /\ vacationModeActive =>
        \A k \in DOMAIN deviceHistory :
          /\ \A t \in timers : t.key = k => t \notin timers'
          /\ Cardinality({t \in timers' : t.key = k}) <= 1 ]_vars

\* reloadSettings has run while the simulation is on and a key had a timer
\* and an empty history
C25_Witness ==
  /\ lastOp.op = "reloadSettings"
  /\ vacationModeActive
  /\ \E k \in DOMAIN deviceHistory :
       /\ deviceHistory[k] = <<>>
       /\ k \in DOMAIN scheduledTimeouts

\* C27: no two timer callbacks of one key are inside executeAction at the
\* same time, also when reloadSettings or enableVacationMode has armed a
\* timer for the key while a callback of the key was suspended on device I/O.
C27_NoOverlap ==
  \A h1, h2 \in handlers : h1.key = h2.key => h1 = h2

\* a callback is suspended on its device write while reloadSettings has
\* armed another timer for its key
C27_Witness ==
  /\ testMode
  /\ \E h \in handlers :
       /\ h.pc = "write"
       /\ \E t \in timers : t.key = h.key /\ t.id # h.id

\* the device read of callback `h` returns a value in this step
ReadReturns(h) ==
  /\ h \in handlers
  /\ h.pc = "read"
  /\ \A x \in handlers' : x.id = h.id => x.pc # "read"
  /\ budget' = budget

\* the device write of callback `h` returns or throws in this step
WriteSettles(h) ==
  /\ h \in handlers
  /\ h.pc = "write"
  /\ lastOp'.op \in {"replayWritten", "replayFailed"}
  /\ lastOp'.key = h.key
  /\ \A x \in handlers' : x.id = h.id => x.pc # "write"

\* C28: when the device read of a timer callback returns, the callback issues
\* one write of the scheduled event's value if the device's value differs
\* from it and ends without a write if it is equal; when that write settles
\* the callback ends, so that a fire issues at most one write.
C28_OneWriteIfDiffers ==
  [][ \A h \in handlers :
        /\ ReadReturns(h) =>
              IF liveValue[h.key] # h.value
                THEN /\ \E x \in handlers' :
                          /\ x.id = h.id
                          /\ x.key = h.key
                          /\ x.value = h.value
                          /\ x.pc = "write"
                     /\ lastOp'.wrote
                     /\ lastOp'.key = h.key
                     /\ lastOp'.value = h.value
                ELSE /\ \A x \in handlers' : x.id # h.id
                     /\ ~lastOp'.wrote
        /\ WriteSettles(h) =>
              /\ \A x \in handlers' : x.id # h.id
              /\ ~lastOp'.wrote
              /\ liveValue'[h.key] \in {liveValue[h.key], h.value} ]_vars

\* a timer callback has found the device at another value than the scheduled
\* one and its single write has succeeded while the simulation is on
C28_Witness ==
  /\ lastOp.op = "replayWritten"
  /\ vacationModeActive
  /\ Tracked(lastOp.key)
  /\ liveValue[lastOp.key] = lastOp.value
  /\ \A h \in handlers : h.key # lastOp.key

\* a timer of key `k` has fired and its callback is running
Fired(k) == \E h \in handlers : h.key = k

\* C29: while the simulation stays on and the keys stay tracked with their
\* recorded events, once a timer of a key has fired the key's callbacks are
\* eventually over with a timer armed for the key, whether their device
\* reads and writes succeeded or failed.
C29_FireLeadsToRearm ==
  \A k \in Keys :
    Fired(k) ~> (~Fired(k) /\ \E t \in timers : t.key = k)

\* the device write of a callback has failed and the callback has armed the
\* key's next timer
C29_Witness ==
  /\ lastOp.op = "replayFailed"
  /\ vacationModeActive
  /\ Tracked(lastOp.key)
  /\ HistoryOf(deviceHistory, lastOp.key) # <<>>
  /\ \E t \in timers : t.key = lastOp.key /\ t.due > clock

-----------------------------------------------------------------------------
(* Claims on ties in calculateNextEvent.                                    *)

\* the positions of `history` whose delay is the one calculateNextEvent
\* returned
Ties(history, result) ==
  {i \in 1..Len(history) : DelayMinutes(history[i], testMode, clock) = result.minDelay}

\* C30: when several events of the history have the minimal positive delay,
\* calculateNextEvent returns the one at the lowest position of the stored
\* array.
C30_FirstOfTies ==
  calcResult.done /\ calcResult.result.found =>
    LET history == deviceHistory[K1]
        ties == Ties(history, calcResult.result)
    IN /\ ties # {}
       /\ \A i \in 1..Len(history) :
            LET d == DelayMinutes(history[i], testMode, clock)
            IN d > 0 => d >= calcResult.result.minDelay
       /\ calcResult.result.nextEvent =
            history[CHOOSE i \in ties : \A j \in ties : i <= j]

\* calculateNextEvent has returned an event whose delay a later event of the
\* array has too
C30_Witness ==
  /\ calcResult.done
  /\ calcResult.result.found
  /\ \E i, j \in Ties(deviceHistory[K1], calcResult.result) :
       /\ i < j
       /\ deviceHistory[K1][i] # deviceHistory[K1][j]
       /\ calcResult.result.nextEvent = deviceHistory[K1][i]

-----------------------------------------------------------------------------
(* Claims on the scan of syncInitialStates.                                 *)

\* C31: for a history in ascending timestamp order and targetTime = now
\* minus 7 days (1 hour in test mode), the scan of syncInitialStates selects
\* the event with the greatest timestamp at or before targetTime, and none
\* when every event is later than targetTime.
C31_GreatestAtOrBefore ==
  calcResult.done =>
    LET history == deviceHistory[K1]
        targetTime == clock - SyncPeriodMs(testMode)
        selected == calcResult.result
    IN IF AtOrBefore(history, targetTime) = {}
         THEN ~selected.found
         ELSE /\ selected.found
              /\ \E i \in AtOrBefore(history, targetTime) : history[i] = selected.event
              /\ \A i \in AtOrBefore(history, targetTime) :
                   history[i].timestamp <= selected.event.timestamp

\* the scan has selected an event and stopped at a later one
C31_Witness ==
  /\ calcResult.done
  /\ calcResult.result.found
  /\ Len(deviceHistory[K1]) >= 2
  /\ calcResult.result.event = deviceHistory[K1][1]
  /\ deviceHistory[K1][2].timestamp > clock - SyncPeriodMs(testMode)

-----------------------------------------------------------------------------
(* Claims on failures during syncInitialStates.                             *)

\* the statuses syncInitialStates pushes to syncActions
SyncStatuses == {"synced", "already_correct", "no_history", "no_historical_state", "error"}

\* a device call of the run `p` throws in this step
Throws(p) ==
  /\ p \in passes
  /\ p.pc \in {"read", "write"}
  /\ budget' = budget - 1
  /\ lastOp'.op # "restart"
  /\ \E q \in passes' : q.id = p.id /\ q.pc # p.pc

\* the run `p` returns to its caller in this step, which then schedules
Returns(p) ==
  /\ p \in passes
  /\ p.pc = "scan"
  /\ lastOp'.op \in {"enabled", "restarted"}
  /\ lastOp'.outcome = p.outcome
  /\ passes' = passes \ {p}

\* C32: a device read or write that throws during syncInitialStates gives
\* the key the status error and the loop goes on with the outcomes it had;
\* when the run returns, every key of deviceHistory has been visited, every
\* key that was tracked throughout has one status among synced,
\* already_correct, no_history, no_historical_state and error, and the
\* caller arms each key's timer from the key's history whatever the statuses.
C32_ErrorDoesNotAbort ==
  [][ \A p \in passes :
        /\ Throws(p) =>
              \E q \in passes' :
                /\ q.id = p.id
                /\ q.pc = "scan"
                /\ q.outcome = MapSet(p.outcome, p.key, "error")
        /\ Returns(p) =>
              /\ DOMAIN deviceHistory \subseteq DOMAIN p.outcome
              /\ \A k \in DOMAIN p.outcome :
                   /\ p.outcome[k] \in SyncStatuses \cup {"skipped"}
                   /\ Tracked(k) /\ ~p.disturbed => p.outcome[k] \in SyncStatuses
              /\ vacationModeActive =>
                   \A k \in DOMAIN deviceHistory :
                     p.kind = "enable" \/ Tracked(k) =>
                       ArmedFrom(k, deviceHistory[k]) ]_vars

\* a run in which the device call of one key threw has gone on to switch
\* the other key, and the caller has armed a timer for the failed key
C32_Witness ==
  /\ lastOp.op \in {"enabled", "restarted"}
  /\ vacationModeActive
  /\ \E k1, k2 \in DOMAIN lastOp.outcome :
       /\ lastOp.outcome[k1] = "error"
       /\ lastOp.outcome[k2] \in {"synced", "already_correct"}
       /\ \E t \in timers : t.key = k1

-----------------------------------------------------------------------------
(* Claims on the restart with the simulation persisted as on.               *)

\* the process restarts in this step and finds the simulation persisted as on
Restarts == lastOp'.op = "restart" /\ settings.vacationModeActive

-----------------------------------------------------------------------------
(* Claims on what recordDeviceEvent persists.                               *)

\* the maps agree on every key but k, which may be in one of them only
SameButFor(before, after, k) ==
  /\ DOMAIN before \ {k} = DOMAIN after \ {k}
  /\ \A x \in DOMAIN before \ {k} : after[x] = before[x]

\* C34: an accepted recordDeviceEvent(key, v) stores the new history of key
\* under the key's storage key and changes nothing else: the blobs and the
\* in-memory histories of the other keys, the persisted list of tracked keys
\* and the persisted flags stay as they were.
C34_RecordWritesOneBlob ==
  [][ lastOp'.rec /\ lastOp'.accepted =>
        LET k == lastOp'.key
        IN /\ settings'.history[StorageKey(k)] = stringify(deviceHistory'[k])
           /\ SameButFor(settings.history, settings'.history, StorageKey(k))
           /\ SameButFor(deviceHistory, deviceHistory', k)
           /\ settings'.trackedDevices = settings.trackedDevices
           /\ settings'.vacationModeActive = settings.vacationModeActive
           /\ settings'.testMode = settings.testMode ]_vars

\* an event of one key has been recorded while the other key is tracked
\* with a history that has no blob yet
C34_Witness ==
  /\ lastOp.rec
  /\ lastOp.accepted
  /\ \E x \in DOMAIN deviceHistory :
       /\ x # lastOp.key
       /\ StorageKey(x) \notin DOMAIN settings.history

-----------------------------------------------------------------------------
(* Claims on the daily cleanup.                                             *)

\* the events of `history` that are in `kept` too
AllIn(history, kept) ==
  \A i \in 1..Len(history) : \E j \in 1..Len(kept) : kept[j] = history[i]

\* the events of `history` that are less than 8 days old at time `now`
Recent(history, now) ==
  SelectSeq(history, LAMBDA e: e.timestamp > now - KeepDuration)

\* the history persisted under the storage key of k
Persisted(store, k) ==
  IF StorageKey(k) \in DOMAIN store.history
    THEN parse(store.history[StorageKey(k)]) ELSE <<>>

\* C35: each iteration of the daily cleanup leaves the key with the events
\* of its history that are later than the cutoff of 8 days, whether or not
\* the key got new events, and writes the blob of that key alone; when the
\* cleanup ends every key has been visited; and in no step, of the cleanup
\* or of a recordDeviceEvent between two iterations, does an event younger
\* than 8 days disappear from a history or from its blob.
C35_SweepKeepsRecent ==
  [][ /\ lastOp'.op = "cleanupKey" =>
           LET k == lastOp'.key
           IN /\ deviceHistory'[k] =
                   SelectSeq(deviceHistory[k], LAMBDA e: e.timestamp > sweep.cutoffTime)
              /\ Persisted(settings', k) = deviceHistory'[k]
              /\ SameButFor(settings.history, settings'.history, StorageKey(k))
              /\ SameButFor(deviceHistory, deviceHistory', k)
      /\ lastOp'.op = "cleanupDone" =>
           \A k \in DOMAIN deviceHistory :
             /\ k \in sweep.visited
             /\ \A i \in 1..Len(deviceHistory[k]) :
                  deviceHistory[k][i].timestamp > sweep.cutoffTime
      /\ \A k \in DOMAIN deviceHistory :
           /\ k \in DOMAIN deviceHistory'
           /\ AllIn(Recent(deviceHistory[k], clock'), deviceHistory'[k])
           /\ AllIn(Recent(Persisted(settings, k), clock'), Persisted(settings', k))
      /\ lastOp'.rec /\ lastOp'.accepted =>
           /\ AllIn(<<MakeEvent(clock, lastOp'.value)>>, deviceHistory'[lastOp'.key])
           /\ AllIn(<<MakeEvent(clock, lastOp'.value)>>, Persisted(settings', lastOp'.key)) ]_vars

\* an iteration of the cleanup has visited a key that got an event after
\* the cleanup began, and the event is in the history and in the blob
C35_Witness ==
  /\ lastOp.op = "cleanupKey"
  /\ sweep.running
  /\ \E i \in 1..Len(deviceHistory[lastOp.key]) :
       deviceHistory[lastOp.key][i].timestamp > sweep.cutoffTime + KeepDuration
  /\ Persisted(settings, lastOp.key) = deviceHistory[lastOp.key]

-----------------------------------------------------------------------------
(* Claims on the existence of a next event.                                 *)

\* the derived fields of every event are in their ranges
WellFormed(history) ==
  \A i \in 1..Len(history) :
    /\ history[i].dayOfWeek \in 0..6
    /\ history[i].timeMinutes \in 0..1439
    /\ history[i].minuteOfHour \in 0..59

\* C37: for a non-empty history whose events have dayOfWeek in 0..6,
\* timeMinutes in 0..1439 and minuteOfHour in 0..59, calculateNextEvent
\* returns one of its events, in both modes and at every current time.
C37_NextEventExists ==
  calcResult.done /\ deviceHistory[K1] # <<>> /\ WellFormed(deviceHistory[K1]) =>
    /\ calcResult.result.found
    /\ \E i \in 1..Len(deviceHistory[K1]) :
         deviceHistory[K1][i] = calcResult.result.nextEvent

\* calculateNextEvent has returned the only event of a history, which lies
\* in the current minute
C37_Witness ==
  /\ calcResult.done
  /\ calcResult.result.found
  /\ Len(deviceHistory[K1]) = 1
  /\ deviceHistory[K1][1].minuteOfHour = getMinutes(clock)
  /\ testMode \/ /\ deviceHistory[K1][1].dayOfWeek = getDay(clock)
                  /\ deviceHistory[K1][1].timeMinutes = getHours(clock) * 60 + getMinutes(clock)

-----------------------------------------------------------------------------
(* Claims on timers and the histories they replay.                          *)

\* C38: while the simulation is on, the key of every outstanding timer has a
\* non-empty history in deviceHistory, and the event the timer will replay
\* is one of its events.
C38_TimerEventInHistory ==
  vacationModeActive =>
    \A t \in timers :
      \E i \in 1..Len(HistoryOf(deviceHistory, t.key)) :
        deviceHistory[t.key][i] = t.event

\* clearHistory has removed the history of a key whose timer is outstanding
C38_Witness ==
  /\ lastOp.op = "clearHistory"
  /\ vacationModeActive
  /\ \E t \in timers :
       /\ t.key = lastOp.key
       /\ HistoryOf(deviceHistory, t.key) = <<>>

-----------------------------------------------------------------------------
(* Claims on the persisted list of tracked keys.                            *)

\* the steps that run stopTrackingDevice for key k: the untrack endpoint, and
\* trackDevice of a group, which stops the keys of the group's members
StopsTracking(k) ==
  \/ lastOp'.op = "stopTracking" /\ lastOp'.key = k
  \/ lastOp'.op = "trackDevice" /\ k \in DOMAIN trackedDevices \ DOMAIN trackedDevices'

\* C39: a key leaves the persisted list of tracked keys only in a step that
\* runs stopTrackingDevice for it; a restart that fails to restore it keeps
\* it in the list.
C39_ListLosesKeyOnlyByStop ==
  [][ \A k \in settings.trackedDevices \ settings'.trackedDevices :
        StopsTracking(k) ]_vars

\* the process has restarted: one persisted key is tracked again, the
\* restore of another one, whose history was reloaded, has failed
C39_Witness ==
  /\ lastOp.op = "restart"
  /\ \E k1, k2 \in Keys :
       /\ Tracked(k1)
       /\ ~Tracked(k2)
       /\ k2 \in DOMAIN deviceHistory
       /\ deviceHistory[k2] # <<>>

-----------------------------------------------------------------------------
(* Claims on the tracking of a key.                                         *)

\* the closures registered for key k
SubscriptionsOf(k) == {s \in subscriptions : s.key = k}

\* C36: a call of startTrackingDevice whose listener registration fails
\* leaves the key tracked by polling; the mode of a key that stays tracked
\* never changes; and a tracked key has a listener or a poll interval, never
\* both and never neither.
C36_ModeFixedWhileTracked ==
  [][ /\ \A k \in Keys :
           lastOp'.op = "startedPolling" /\ lastOp'.key = k => Polling(k)'
      /\ \A k \in Keys :
           Tracked(k) /\ Tracked(k)' =>
             trackedDevices'[k].mode = trackedDevices[k].mode
      /\ \A k \in Keys :
           Tracked(k)' => (Heard(k)' # Polled(k)') ]_vars

\* a call whose registration failed has made a key poll that was tracked
\* by listener, and the listener is still registered
C36_Witness ==
  /\ lastOp.op = "startedPolling"
  /\ Polling(lastOp.key)
  /\ Heard(lastOp.key)
  /\ Polled(lastOp.key)

\* C40: every key has at most one listener or poll interval, the one its
\* entry of trackedDevices records, whatever calls of startTrackingDevice
\* overlap; and no event is appended to the history of a key that is not
\* tracked and does not become tracked.
C40_OneSubscriptionPerKey ==
  [][ /\ \A k \in Keys :
           /\ Cardinality(SubscriptionsOf(k)') <= 1
           /\ \A s \in SubscriptionsOf(k)' :
                Tracked(k)' /\ trackedDevices'[k].mode = s.kind
      /\ \A k \in Keys :
           ~Tracked(k) /\ ~Tracked(k)' =>
             HistoryOf(deviceHistory', k) = HistoryOf(deviceHistory, k) ]_vars

\* two calls for one key have overlapped, stopTrackingDevice has run, and
\* the listener it did not remove has appended an event for the key
C40_Witness ==
  /\ lastOp.op = "listener"
  /\ lastOp.accepted
  /\ ~Tracked(lastOp.key)
  /\ Heard(lastOp.key)
  /\ deviceHistory[lastOp.key] # <<>>

====
